---- MODULE Spec2Model ----
(***************************************************************************)
(* PUS telemetry codec of py-spacepackets (spacepackets/ecss/tm.py):       *)
(* PusTelemetry and PusTmSecondaryHeader, their pack() and unpack(), the   *)
(* CRC-16/CCITT-FALSE framing, and the collaborators they call             *)
(* (SpacePacketHeader, CdsShortTimestamp, the default PUS TM version).     *)
(*                                                                         *)
(* A byte string is a sequence of integers 0..255.  An operation that can  *)
(* raise returns a record whose err field is "none" or the name of the     *)
(* Python exception.                                                       *)
(***************************************************************************)
EXTENDS Integers, Sequences, FiniteSets, TLC

(***************************************************************************)
(* Bounds of the model.                                                    *)
(***************************************************************************)
\* longest source data field of a constructed telemetry packet
MaxSrcLen == 2
\* most bytes a caller appends behind a packed packet before unpacking it
MaxTrailing == 1
\* most bytes a caller cuts off the end of a packed packet before unpacking
MaxDrop == 2
\* the longest value of a TLV that is converted
MaxMsgLen == 2
\* the most bytes a caller appends to the buffer of one PusTelemetry
MaxAppend == 1

(***************************************************************************)
(* Program constants.                                                      *)
(***************************************************************************)
\* PusVersion (spacepackets.ecss.conf)
PUS_A == 1
PUS_C == 2
GLOBAL_CONFIG == 98
\* PacketTypes.PACKET_TYPE_TM
PACKET_TYPE_TM == 0
\* SequenceFlags.UNSEGMENTED, the sequence flags of a constructed header
UNSEGMENTED == 3
SPACE_PACKET_HEADER_SIZE == 6
\* PusTelemetry.CDS_SHORT_SIZE and PUS_TIMESTAMP_SIZE
CDS_SHORT_SIZE == 7
PUS_TIMESTAMP_SIZE == CDS_SHORT_SIZE
HEADER_SIZE_WITHOUT_TIME_PUS_A == 4
HEADER_SIZE_WITHOUT_TIME_PUS_C == 7
\* value of the service_id and subservice_id of PusTmSecondaryHeader.__empty
EMPTY_ID == -1
\* an attribute that was never assigned; reading it raises AttributeError
Unset == -2

(***************************************************************************)
(* Bytes and bit operations on non-negative integers.                      *)
(***************************************************************************)
Byte == 0..255

Bit(b, n) == (b \div (2 ^ n)) % 2

Xor4 == [a \in 0..15 |-> [b \in 0..15 |->
           ((Bit(a, 0) + Bit(b, 0)) % 2) + 2 * ((Bit(a, 1) + Bit(b, 1)) % 2)
           + 4 * ((Bit(a, 2) + Bit(b, 2)) % 2) + 8 * ((Bit(a, 3) + Bit(b, 3)) % 2)]]

Xor8(a, b) == 16 * Xor4[a \div 16][b \div 16] + Xor4[a % 16][b % 16]

\* a | b of Python for a, b >= 0
RECURSIVE BitOr(_, _)
BitOr(a, b) ==
    IF a = 0 THEN b
    ELSE IF b = 0 THEN a
    ELSE 2 * BitOr(a \div 2, b \div 2) + (IF a % 2 = 1 \/ b % 2 = 1 THEN 1 ELSE 0)

\* seq[from:to] of Python for 0 <= from and 0 <= to <= len(seq)
Slice(seq, from, to) ==
    IF to <= from THEN << >> ELSE SubSeq(seq, from + 1, to)

\* seq[from:] of Python for from >= 0
SliceFrom(seq, from) ==
    IF from >= Len(seq) THEN << >> ELSE SubSeq(seq, from + 1, Len(seq))

\* seq[from:-2] of Python for from >= 0
SliceToMinus2(seq, from) ==
    IF Len(seq) - 2 <= from THEN << >> ELSE SubSeq(seq, from + 1, Len(seq) - 2)

(***************************************************************************)
(* CRC-16/CCITT-FALSE: polynomial 0x1021, initial value 0xFFFF, no         *)
(* reflection, no final XOR; the table-driven algorithm of crcmod.         *)
(***************************************************************************)
\* x ^ 0x1021 for a 16-bit x whose lowest bit is 0
XorPoly(x) ==
    LET b5 == IF (x \div 32) % 2 = 1 THEN x - 32 ELSE x + 32
    IN  (IF (b5 \div 4096) % 2 = 1 THEN b5 - 4096 ELSE b5 + 4096) + 1

CrcShift(crc) ==
    LET sh == (crc * 2) % 65536
    IN  IF crc \div 32768 = 1 THEN XorPoly(sh) ELSE sh

CrcTable == [i \in 0..255 |->
    CrcShift(CrcShift(CrcShift(CrcShift(CrcShift(CrcShift(CrcShift(CrcShift(i * 256))))))))]

CrcStep[crc \in 0..65535, b \in Byte] ==
    LET t == CrcTable[Xor8(crc \div 256, b)]
    IN  256 * Xor8(crc % 256, t \div 256) + (t % 256)

RECURSIVE CrcUpTo(_, _)
CrcUpTo(bytes, n) ==
    IF n = 0 THEN 65535 ELSE CrcStep[CrcUpTo(bytes, n - 1), bytes[n]]

crc_func(bytes) == CrcUpTo(bytes, Len(bytes))

(***************************************************************************)
(* Results of operations that can raise.                                   *)
(***************************************************************************)
Ok(v) == [err |-> "none", val |-> v]
Raise(e) == [err |-> e, val |-> << >>]

\* bytearray.append(v): ValueError unless v is in range(256)
AppendByte(res, v) ==
    IF res.err # "none" THEN res
    ELSE IF v \in Byte THEN Ok(Append(res.val, v))
    ELSE Raise("ValueError")

\* bytearray.extend(more)
Extend(res, more) ==
    IF res.err # "none" THEN res
    ELSE IF more.err # "none" THEN more
    ELSE Ok(res.val \o more.val)

(***************************************************************************)
(* CdsShortTimestamp (spacepackets.ccsds.time): [p_field:1][days:2 BE]     *)
(* [ms_of_day:4 BE], 7 bytes on the wire.                                  *)
(***************************************************************************)
CdsShortTimestamp(p_field, ccsds_days, ms_of_day) ==
    [p_field |-> p_field, ccsds_days |-> ccsds_days, ms_of_day |-> ms_of_day]

CdsShortTimestamp_pack(t) ==
    << t.p_field,
       (t.ccsds_days \div 256) % 256, t.ccsds_days % 256,
       (t.ms_of_day \div 16777216) % 256, (t.ms_of_day \div 65536) % 256,
       (t.ms_of_day \div 256) % 256, t.ms_of_day % 256 >>

CdsShortTimestamp_unpack(time_field) ==
    IF Len(time_field) < CDS_SHORT_SIZE THEN Raise("ValueError")
    ELSE Ok(CdsShortTimestamp(
            time_field[1],
            time_field[2] * 256 + time_field[3],
            time_field[4] * 16777216 + time_field[5] * 65536
                + time_field[6] * 256 + time_field[7]))

(***************************************************************************)
(* SpacePacketHeader (spacepackets.ccsds.spacepacket): 6 bytes,            *)
(*   byte 0: [version:3][type:1][sec_hdr_flag:1][apid_hi:3]                *)
(*   byte 1: [apid_lo:8]                                                   *)
(*   byte 2: [seq_flags:2][seq_count_hi:6]    byte 3: [seq_count_lo:8]     *)
(*   byte 4: [data_length_hi:8]               byte 5: [data_length_lo:8]   *)
(***************************************************************************)
SpacePacketHeader(apid, packet_type, secondary_header_flag, packet_version, data_length, ssc) ==
    [packet_version |-> packet_version, packet_type |-> packet_type,
     secondary_header_flag |-> secondary_header_flag, apid |-> apid,
     sequence_flags |-> UNSEGMENTED, ssc |-> ssc,
     data_length |-> data_length]

SpacePacketHeader_pack(h) ==
    IF \/ h.packet_version \notin 0..7 \/ h.packet_type \notin 0..1
       \/ h.secondary_header_flag \notin 0..1 \/ h.apid \notin 0..2047
       \/ h.sequence_flags \notin 0..3 \/ h.ssc \notin 0..16383
       \/ h.data_length \notin 0..65535
    THEN Raise("ValueError")
    ELSE Ok(<< h.packet_version * 32 + h.packet_type * 16
                  + h.secondary_header_flag * 8 + (h.apid \div 256),
               h.apid % 256,
               h.sequence_flags * 64 + (h.ssc \div 256),
               h.ssc % 256,
               h.data_length \div 256,
               h.data_length % 256 >>)

SpacePacketHeader_unpack(space_packet_raw) ==
    IF Len(space_packet_raw) < SPACE_PACKET_HEADER_SIZE THEN Raise("ValueError")
    ELSE Ok([packet_version |-> space_packet_raw[1] \div 32,
             packet_type |-> (space_packet_raw[1] \div 16) % 2,
             secondary_header_flag |-> (space_packet_raw[1] \div 8) % 2,
             apid |-> (space_packet_raw[1] % 8) * 256 + space_packet_raw[2],
             sequence_flags |-> space_packet_raw[3] \div 64,
             ssc |-> (space_packet_raw[3] % 64) * 256 + space_packet_raw[4],
             data_length |-> space_packet_raw[5] * 256 + space_packet_raw[6]])

\* total_packet_len = data_length + 7
get_total_space_packet_len_from_len_field(len_field) ==
    len_field + SPACE_PACKET_HEADER_SIZE + 1

\* SpacePacketHeader.get_packet_size
SpacePacketHeader_get_packet_size(h) ==
    get_total_space_packet_len_from_len_field(h.data_length)

\* read_p_field: the time code identification of a p_field
read_p_field(p_field) == (p_field \div 16) % 8

(***************************************************************************)
(* The process-wide defaults of spacepackets.ecss.conf, read by            *)
(* get_pus_tm_version() and get_tm_apid(): conf is the configuration block.*)
(***************************************************************************)
\* get_pus_tm_version that returns PUS C whatever the configuration block holds
get_pus_tm_version_of_no_block(conf) == PUS_C

get_pus_tm_version(conf) == conf.pus_tm_version

get_tm_apid(conf) == conf.tm_apid

(***************************************************************************)
(* PusTmSecondaryHeader.                                                   *)
(***************************************************************************)
\* PusTmSecondaryHeader.__init__
PusTmSecondaryHeader_init(pus_version, service_id, subservice_id, time, message_counter, destination_id, spacecraft_time_ref, conf) ==
    LET version == IF pus_version = GLOBAL_CONFIG THEN get_pus_tm_version(conf) ELSE pus_version
    IN  IF version # PUS_A /\ version # PUS_C THEN Raise("ValueError")
        ELSE IF \/ (version = PUS_A /\ message_counter > 255)
                \/ (version = PUS_C /\ message_counter > 65536)
        THEN Raise("ValueError")
        ELSE Ok([pus_version |-> version,
                 pus_version_number |-> Unset,
                 spacecraft_time_ref |-> spacecraft_time_ref,
                 service_id |-> service_id,
                 subservice_id |-> subservice_id,
                 message_counter |-> message_counter,
                 destination_id |-> destination_id,
                 time |-> time])

\* PusTmSecondaryHeader.__empty; now is CdsShortTimestamp.init_from_current_time()
PusTmSecondaryHeader_empty(now, conf) ==
    PusTmSecondaryHeader_init(PUS_C, EMPTY_ID, EMPTY_ID, now, 0, 0, 0, conf).val

\* PusTmSecondaryHeader.get_header_size
get_header_size(hdr) ==
    IF hdr.pus_version = PUS_A THEN PUS_TIMESTAMP_SIZE + 4
    ELSE PUS_TIMESTAMP_SIZE + 7

\* the first byte of the secondary header as pack() appends it
PusTmSecondaryHeader_pack_first(hdr) ==
    IF hdr.pus_version = PUS_A
    THEN IF hdr.pus_version_number = Unset THEN Raise("AttributeError")
         ELSE AppendByte(Ok(<< >>), (hdr.pus_version_number % 8) * 16)
    ELSE IF hdr.pus_version = PUS_C
    THEN AppendByte(Ok(<< >>), BitOr(hdr.pus_version * 16, hdr.spacecraft_time_ref))
    ELSE Ok(<< >>)

\* the message counter and destination id appended low byte first
PusTmSecondaryHeader_pack_counter_low_first(res, hdr) ==
    IF hdr.pus_version = PUS_A
    THEN AppendByte(res, hdr.message_counter)
    ELSE IF hdr.pus_version = PUS_C
    THEN AppendByte(AppendByte(AppendByte(AppendByte(res,
            hdr.message_counter % 256),
            (hdr.message_counter \div 256) % 256),
            hdr.destination_id % 256),
            (hdr.destination_id \div 256) % 256)
    ELSE res

\* the message counter and destination id as pack() appends them
PusTmSecondaryHeader_pack_counter(res, hdr) ==
    IF hdr.pus_version = PUS_A
    THEN AppendByte(res, hdr.message_counter)
    ELSE IF hdr.pus_version = PUS_C
    THEN AppendByte(AppendByte(AppendByte(AppendByte(res,
            (hdr.message_counter \div 256) % 256),
            hdr.message_counter % 256),
            (hdr.destination_id \div 256) % 256),
            hdr.destination_id % 256)
    ELSE res

\* PusTmSecondaryHeader.pack
PusTmSecondaryHeader_pack(hdr) ==
    LET first == PusTmSecondaryHeader_pack_first(hdr)
        ids == AppendByte(AppendByte(first, hdr.service_id), hdr.subservice_id)
        counter == PusTmSecondaryHeader_pack_counter(ids, hdr)
    IN  Extend(counter, Ok(CdsShortTimestamp_pack(hdr.time)))

\* PusTmSecondaryHeader.unpack, the version field: header_start[0] is read
\* before the length of header_start is looked at
PusTmSecondaryHeader_unpack_version(secondary_header, header_start, pus_version) ==
    IF pus_version = PUS_A
    THEN IF Len(header_start) = 0 THEN Raise("IndexError")
         ELSE LET pus_version_number == (header_start[1] \div 16) % 8
              IN  IF pus_version_number = 1 THEN Raise("ValueError")
                  ELSE Ok([secondary_header EXCEPT
                             !.pus_version = PUS_A,
                             !.pus_version_number = pus_version_number])
    ELSE IF pus_version = PUS_C
    THEN LET assigned == [secondary_header EXCEPT !.pus_version = PUS_C]
         IN  IF assigned.pus_version # PUS_C THEN Raise("ValueError")
             ELSE IF Len(header_start) = 0 THEN Raise("IndexError")
             ELSE Ok([assigned EXCEPT
                        !.pus_version_number = header_start[1] \div 16,
                        !.spacecraft_time_ref = header_start[1] % 16])
    ELSE Ok(secondary_header)

\* PusTmSecondaryHeader.unpack, the fields behind the version field;
\* header_start holds at least get_header_size() bytes
PusTmSecondaryHeader_unpack_fields(secondary_header, header_start, pus_version) ==
    LET message_counter ==
            IF pus_version = PUS_A THEN header_start[4]
            ELSE header_start[4] * 256 + header_start[5]
        after_counter == IF pus_version = PUS_A THEN 4 ELSE 5
        destination_id ==
            IF pus_version = PUS_C
            THEN header_start[after_counter + 1] * 256 + header_start[after_counter + 2]
            ELSE secondary_header.destination_id
        current_idx == IF pus_version = PUS_C THEN after_counter + 2 ELSE after_counter
        time_code_id == read_p_field(header_start[current_idx + 1])
        time == CdsShortTimestamp_unpack(
                    Slice(header_start, current_idx, current_idx + PUS_TIMESTAMP_SIZE))
    IN  IF time.err # "none" THEN time
        ELSE Ok([secondary_header EXCEPT
                   !.service_id = header_start[2],
                   !.subservice_id = header_start[3],
                   !.message_counter = message_counter,
                   !.destination_id = destination_id,
                   !.time = time.val])

\* PusTmSecondaryHeader.unpack
PusTmSecondaryHeader_unpack(header_start, pus_version, now, conf) ==
    LET version == IF pus_version = GLOBAL_CONFIG THEN get_pus_tm_version(conf) ELSE pus_version
        versioned == PusTmSecondaryHeader_unpack_version(
                         PusTmSecondaryHeader_empty(now, conf), header_start, version)
    IN  IF versioned.err # "none" THEN versioned
        ELSE IF Len(header_start) < get_header_size(versioned.val)
        THEN Raise("ValueError")
        ELSE PusTmSecondaryHeader_unpack_fields(versioned.val, header_start, version)

(***************************************************************************)
(* PusTelemetry.                                                           *)
(***************************************************************************)
\* PusTelemetry.get_source_data_length
get_source_data_length(source_data, timestamp_len, pus_version) ==
    IF pus_version = PUS_A
    THEN Ok(HEADER_SIZE_WITHOUT_TIME_PUS_A + timestamp_len + Len(source_data) + 1)
    ELSE IF pus_version = PUS_C
    THEN Ok(HEADER_SIZE_WITHOUT_TIME_PUS_C + timestamp_len + Len(source_data) + 1)
    ELSE Raise("ValueError")

\* PusTelemetry.__init__
PusTelemetry_init(service_id, subservice_id, time, ssc, source_data, apid, message_counter, space_time_ref, destination_id, pus_version, conf) ==
    LET tm_apid == IF apid = -1 THEN get_tm_apid(conf) ELSE apid
        version == IF pus_version = GLOBAL_CONFIG THEN get_pus_tm_version(conf) ELSE pus_version
        data_length == get_source_data_length(source_data, PUS_TIMESTAMP_SIZE, version)
        secondary_packet_header ==
            PusTmSecondaryHeader_init(version, service_id, subservice_id, time,
                                      message_counter, destination_id, space_time_ref, conf)
    IN  IF data_length.err # "none" THEN data_length
        ELSE IF secondary_packet_header.err # "none" THEN secondary_packet_header
        ELSE Ok([space_packet_header |->
                     SpacePacketHeader(tm_apid, PACKET_TYPE_TM, 1, 0, data_length.val, ssc),
                 secondary_packet_header |-> secondary_packet_header.val,
                 source_data |-> source_data,
                 valid |-> FALSE,
                 crc16 |-> 0,
                 crc |-> Unset])

\* PusTelemetry.get_packet_size
get_packet_size(tm) == SpacePacketHeader_get_packet_size(tm.space_packet_header)

\* PusTelemetry.pack without the checksum: the headers and the source data
PusTelemetry_pack_body(tm) ==
    Extend(Extend(Extend(Ok(<< >>),
        SpacePacketHeader_pack(tm.space_packet_header)),
        PusTmSecondaryHeader_pack(tm.secondary_packet_header)),
        Ok(tm.source_data))

\* PusTelemetry.pack with the two checksum bytes appended low byte first
PusTelemetry_pack_crc_low_first(tm) ==
    LET tm_packet_raw == PusTelemetry_pack_body(tm)
    IN  IF tm_packet_raw.err # "none" THEN tm_packet_raw
        ELSE LET crc16 == crc_func(tm_packet_raw.val)
             IN  Ok(tm_packet_raw.val \o << crc16 % 256, crc16 \div 256 >>)

\* PusTelemetry.pack: the bytes returned
PusTelemetry_pack(tm) ==
    LET tm_packet_raw == PusTelemetry_pack_body(tm)
    IN  IF tm_packet_raw.err # "none" THEN tm_packet_raw
        ELSE LET crc16 == crc_func(tm_packet_raw.val)
             IN  Ok(tm_packet_raw.val \o << crc16 \div 256, crc16 % 256 >>)

\* PusTelemetry.pack: the object afterwards (self._crc16 is assigned)
PusTelemetry_pack_self(tm) ==
    LET tm_packet_raw == PusTelemetry_pack_body(tm)
    IN  IF tm_packet_raw.err # "none" THEN tm
        ELSE [tm EXCEPT !.crc16 = crc_func(tm_packet_raw.val)]

\* PusTelemetry.__empty: the pus_version it is given is not used
PusTelemetry_empty(pus_version, now, conf) ==
    PusTelemetry_init(0, 0, now, 0, << >>, -1, 0, 0, 0, GLOBAL_CONFIG, conf)

\* PusTelemetry.is_valid
is_valid(tm) == tm.valid

\* PusTelemetry.__perform_crc_check that computes no CRC
perform_crc_check_without_crc(tm, raw_telemetry) == [tm EXCEPT !.valid = TRUE]

\* PusTelemetry.__perform_crc_check: the object afterwards
perform_crc_check(tm, raw_telemetry) ==
    LET full_packet_size == get_packet_size(tm)
    IN  IF Len(raw_telemetry) < full_packet_size THEN tm
        ELSE IF crc_func(Slice(raw_telemetry, 0, full_packet_size)) = 0
        THEN [tm EXCEPT !.valid = TRUE]
        ELSE tm

\* PusTelemetry.unpack, from the secondary header on; pus_tm holds the decoded
\* space packet header.  Reading raw_telemetry[expected_packet_len - 1] raises
\* IndexError when raw_telemetry is shorter than expected_packet_len
PusTelemetry_unpack_data(pus_tm, raw_telemetry, expected_packet_len, pus_version, now, conf) ==
    LET secondary_packet_header ==
            PusTmSecondaryHeader_unpack(
                SliceFrom(raw_telemetry, SPACE_PACKET_HEADER_SIZE), pus_version, now, conf)
    IN  IF secondary_packet_header.err # "none" THEN secondary_packet_header
        ELSE IF Len(raw_telemetry) - 2 <
                    get_header_size(secondary_packet_header.val) + SPACE_PACKET_HEADER_SIZE
        THEN Raise("ValueError")
        ELSE IF expected_packet_len > Len(raw_telemetry) THEN Raise("IndexError")
        ELSE Ok(perform_crc_check(
                 [pus_tm EXCEPT
                    !.secondary_packet_header = secondary_packet_header.val,
                    !.source_data = SliceToMinus2(raw_telemetry,
                        get_header_size(secondary_packet_header.val)
                            + SPACE_PACKET_HEADER_SIZE),
                    !.crc = raw_telemetry[expected_packet_len - 1] * 256
                                + raw_telemetry[expected_packet_len]],
                 raw_telemetry))

\* PusTelemetry.unpack without the comparison of the expected packet length
\* with the length of raw_telemetry
PusTelemetry_unpack_no_length_check(raw_telemetry, pus_version, now, conf) ==
    IF raw_telemetry.is_none THEN Raise("ValueError")
    ELSE IF Len(raw_telemetry.bytes) = 0 THEN Raise("ValueError")
    ELSE LET pus_tm == PusTelemetry_empty(pus_version, now, conf)
             space_packet_header == SpacePacketHeader_unpack(raw_telemetry.bytes)
         IN  IF pus_tm.err # "none" THEN pus_tm
             ELSE IF space_packet_header.err # "none" THEN space_packet_header
             ELSE PusTelemetry_unpack_data(
                      [pus_tm.val EXCEPT !.space_packet_header = space_packet_header.val],
                      raw_telemetry.bytes,
                      get_total_space_packet_len_from_len_field(
                          space_packet_header.val.data_length),
                      pus_version, now, conf)

\* PusTelemetry.unpack; raw_telemetry is [is_none, bytes]
PusTelemetry_unpack(raw_telemetry, pus_version, now, conf) ==
    IF raw_telemetry.is_none THEN Raise("ValueError")
    ELSE IF Len(raw_telemetry.bytes) = 0 THEN Raise("ValueError")
    ELSE LET pus_tm == PusTelemetry_empty(pus_version, now, conf)
             space_packet_header == SpacePacketHeader_unpack(raw_telemetry.bytes)
         IN  IF pus_tm.err # "none" THEN pus_tm
             ELSE IF space_packet_header.err # "none" THEN space_packet_header
             ELSE LET expected_packet_len ==
                          get_total_space_packet_len_from_len_field(
                              space_packet_header.val.data_length)
                  IN  IF expected_packet_len > Len(raw_telemetry.bytes)
                      THEN Raise("ValueError")
                      ELSE PusTelemetry_unpack_data(
                               [pus_tm.val EXCEPT
                                  !.space_packet_header = space_packet_header.val],
                               raw_telemetry.bytes, expected_packet_len,
                               pus_version, now, conf)

\* get_service_from_raw_pus_packet reading the byte at offset 6, the first
\* byte of the secondary header
get_service_from_offset_6(raw_bytearray) ==
    IF Len(raw_bytearray) < 8 THEN Raise("ValueError")
    ELSE Ok(raw_bytearray[7])

\* get_service_from_raw_pus_packet
get_service_from_raw_pus_packet(raw_bytearray) ==
    IF Len(raw_bytearray) < 8 THEN Raise("ValueError")
    ELSE Ok(raw_bytearray[8])

(***************************************************************************)
(* PusTm (spacepackets.ecss.tm of the release of pus_17_test.py): a PUS C  *)
(* telemetry packet whose timestamp is a byte string of any length.        *)
(***************************************************************************)
\* PusService.S17_TEST
S17_TEST == 17
\* Subservice of pus_17_test.py
TC_PING == 1
TM_REPLY == 2

\* PusTm.__init__: data_length = sec_hdr_len + src_data_len + 2 - 1
PusTm_init(service, subservice, timestamp, seq_count, source_data, apid, packet_version, space_time_ref, destination_id) ==
    [space_packet_header |->
         SpacePacketHeader(apid, PACKET_TYPE_TM, 1, packet_version,
                           Len(timestamp) + 7 + Len(source_data) + 2 - 1, seq_count),
     pus_tm_sec_header |->
         [pus_version |-> PUS_C, spacecraft_time_ref |-> space_time_ref,
          service |-> service, subservice |-> subservice, message_counter |-> 0,
          dest_id |-> destination_id, timestamp |-> timestamp],
     source_data |-> source_data]

\* the secondary header of a PusTm on the wire
PusTm_sec_header_pack(h) ==
    Extend(AppendByte(AppendByte(AppendByte(AppendByte(
           AppendByte(AppendByte(AppendByte(Ok(<< >>),
               IF h.spacecraft_time_ref \in 0..15
               THEN h.pus_version * 16 + h.spacecraft_time_ref ELSE 256),
               h.service), h.subservice),
               h.message_counter \div 256), h.message_counter % 256),
               h.dest_id \div 256), h.dest_id % 256),
           Ok(h.timestamp))

\* PusTm.pack
PusTm_pack(pus_tm) ==
    LET body == Extend(Extend(SpacePacketHeader_pack(pus_tm.space_packet_header),
                              PusTm_sec_header_pack(pus_tm.pus_tm_sec_header)),
                       Ok(pus_tm.source_data))
    IN  IF body.err # "none" THEN body
        ELSE LET crc16 == crc_func(body.val)
             IN  Ok(body.val \o << crc16 \div 256, crc16 % 256 >>)

\* PusTm.unpack from the secondary header on; data holds expected bytes or more
PusTm_unpack_data(space_packet_header, data, expected, timestamp_len) ==
    LET sec_hdr_len == 7 + timestamp_len
    IN  IF expected < 6 + sec_hdr_len + 2 THEN Raise("BytesTooShortError")
        ELSE IF data[7] \div 16 # PUS_C THEN Raise("ValueError")
        ELSE IF crc_func(Slice(data, 0, expected)) # 0 THEN Raise("InvalidTmCrc16")
        ELSE Ok([space_packet_header |-> space_packet_header,
                 pus_tm_sec_header |->
                     [pus_version |-> PUS_C, spacecraft_time_ref |-> data[7] % 16,
                      service |-> data[8], subservice |-> data[9],
                      message_counter |-> data[10] * 256 + data[11],
                      dest_id |-> data[12] * 256 + data[13],
                      timestamp |-> Slice(data, 13, 13 + timestamp_len)],
                 source_data |-> Slice(data, 6 + sec_hdr_len, expected - 2)])

\* PusTm.unpack
PusTm_unpack(data, timestamp_len) ==
    LET space_packet_header == SpacePacketHeader_unpack(data)
    IN  IF space_packet_header.err # "none" THEN Raise("BytesTooShortError")
        ELSE LET expected == get_total_space_packet_len_from_len_field(
                                 space_packet_header.val.data_length)
             IN  IF Len(data) < expected THEN Raise("BytesTooShortError")
                 ELSE PusTm_unpack_data(space_packet_header.val, data, expected,
                                        timestamp_len)

\* PacketId and PacketSeqCtrl: views of the space packet header
PacketId(h) == [ptype |-> h.packet_type, sec_header_flag |-> h.secondary_header_flag, apid |-> h.apid]
PacketSeqCtrl(h) == [seq_flags |-> h.sequence_flags, seq_count |-> h.ssc]

(***************************************************************************)
(* Service17Tm (spacepackets/ecss/pus_17_test.py): the wrapper of a PusTm  *)
(* of service 17.                                                          *)
(***************************************************************************)
\* Service17Tm.__init__
Service17Tm_init(apid, subservice, timestamp, ssc, source_data, packet_version, space_time_ref, destination_id) ==
    [pus_tm |-> PusTm_init(S17_TEST, subservice, timestamp, ssc, source_data, apid,
                           packet_version, space_time_ref, destination_id)]

\* the properties of Service17Tm
Service17Tm_sp_header(self) == self.pus_tm.space_packet_header
Service17Tm_ccsds_version(self) == self.pus_tm.space_packet_header.packet_version
Service17Tm_packet_id(self) == PacketId(self.pus_tm.space_packet_header)
Service17Tm_packet_seq_control(self) == PacketSeqCtrl(self.pus_tm.space_packet_header)
Service17Tm_service(self) == self.pus_tm.pus_tm_sec_header.service
Service17Tm_timestamp(self) == self.pus_tm.pus_tm_sec_header.timestamp
Service17Tm_subservice(self) == self.pus_tm.pus_tm_sec_header.subservice
Service17Tm_source_data(self) == self.pus_tm.source_data

\* Service17Tm.__empty
Service17Tm_empty == Service17Tm_init(0, 0, << >>, 0, << >>, 0, 0, 0)

\* Service17Tm.pack of the empty Service17Tm in place of self
Service17Tm_pack_empty(self) == PusTm_pack(Service17Tm_empty.pus_tm)

\* Service17Tm.pack
Service17Tm_pack(self) == PusTm_pack(self.pus_tm)

\* Service17Tm.unpack
Service17Tm_unpack(data, timestamp_len) ==
    LET service_17_tm == Service17Tm_empty
        pus_tm == PusTm_unpack(data, timestamp_len)
    IN  IF pus_tm.err # "none" THEN pus_tm
        ELSE Ok([service_17_tm EXCEPT !.pus_tm = pus_tm.val])

(***************************************************************************)
(* CFDP (spacepackets.cfdp): the TLVs a Finished PDU carries.  A TLV is    *)
(* [tlv_type:1][length:1][value:length]; an LV is [length:1][value].       *)
(***************************************************************************)
\* TlvTypes
FILESTORE_REQUEST == 0
FILESTORE_RESPONSE == 1
MESSAGE_TO_USER == 2
FAULT_HANDLER == 4
FLOW_LABEL == 5
ENTITY_ID == 6
\* DirectiveType.FINISHED_PDU
FINISHED_PDU == 5
\* DeliveryCode
DATA_COMPLETE == 0
DATA_INCOMPLETE == 1
\* FileDeliveryStatus
DISCARDED_DELIBERATELY == 0
FILE_RETAINED == 2
FILE_STATUS_UNREPORTED == 3
\* ConditionCode
NO_ERROR == 0
POSITIVE_ACK_LIMIT_REACHED == 1
FILESTORE_REJECTION == 4
CHECK_LIMIT_REACHED == 10
\* FilestoreActionCode
RENAME_FILE_SNP == 2
APPEND_FILE_SNP == 3
REPLACE_FILE_SNP == 4
REMOVE_DIR_SNN == 6
\* FilestoreResponseStatusCode
REMOVE_DIR_SUCCESS == 0
APPEND_NOT_PERFORMED == 15
\* an optional field that is not there
None == [tlv_type |-> -1]

\* CfdpLv.pack
CfdpLv_pack(value) == << Len(value) >> \o value

\* CfdpLv.unpack: [err, val |-> the value] of the LV at the start of raw_bytes
CfdpLv_unpack(raw_bytes) ==
    IF Len(raw_bytes) < 1 THEN Raise("ValueError")
    ELSE IF Len(raw_bytes) < 1 + raw_bytes[1] THEN Raise("ValueError")
    ELSE Ok(SubSeq(raw_bytes, 2, 1 + raw_bytes[1]))

\* EntityIdTlv(entity_id)
EntityIdTlv(entity_id) == [tlv_type |-> ENTITY_ID, entity_id |-> entity_id]

\* EntityIdTlv.pack and EntityIdTlv.packet_len
EntityIdTlv_pack(tlv) == << ENTITY_ID, Len(tlv.entity_id) >> \o tlv.entity_id
EntityIdTlv_packet_len(tlv) == 2 + Len(tlv.entity_id)

\* EntityIdTlv.unpack of the TLV at the start of raw_bytes
EntityIdTlv_unpack(raw_bytes) ==
    IF Len(raw_bytes) < 2 THEN Raise("ValueError")
    ELSE IF raw_bytes[1] # ENTITY_ID THEN Raise("ValueError")
    ELSE IF Len(raw_bytes) < 2 + raw_bytes[2] THEN Raise("ValueError")
    ELSE Ok(EntityIdTlv(SubSeq(raw_bytes, 3, 2 + raw_bytes[2])))

\* the action codes of a file store response with a second file name
HasSecondFileName(action_code) ==
    action_code \in {RENAME_FILE_SNP, APPEND_FILE_SNP, REPLACE_FILE_SNP}

\* FileStoreResponseTlv(action_code, status_code, first_file_name, second_file_name)
FileStoreResponseTlv(action_code, status_code, first_file_name, second_file_name) ==
    [tlv_type |-> FILESTORE_RESPONSE, action_code |-> action_code,
     status_code |-> status_code, first_file_name |-> first_file_name,
     second_file_name |-> second_file_name, filestore_msg |-> << >>]

\* the value field of a FileStoreResponseTlv
FileStoreResponseTlv_value(tlv) ==
    << tlv.action_code * 16 + tlv.status_code >>
    \o CfdpLv_pack(tlv.first_file_name)
    \o (IF HasSecondFileName(tlv.action_code) THEN CfdpLv_pack(tlv.second_file_name)
        ELSE << >>)
    \o CfdpLv_pack(tlv.filestore_msg)

\* FileStoreResponseTlv.pack and FileStoreResponseTlv.packet_len
FileStoreResponseTlv_pack(tlv) ==
    << FILESTORE_RESPONSE, Len(FileStoreResponseTlv_value(tlv)) >>
    \o FileStoreResponseTlv_value(tlv)
FileStoreResponseTlv_packet_len(tlv) == 2 + Len(FileStoreResponseTlv_value(tlv))

\* the file names and the message of a file store response, read from the
\* value field behind its first byte
FileStoreResponseTlv_unpack_names(action_code, status_code, names) ==
    LET first == CfdpLv_unpack(names)
        after_first == IF first.err = "none" THEN SliceFrom(names, 1 + Len(first.val))
                       ELSE << >>
        second == IF HasSecondFileName(action_code) THEN CfdpLv_unpack(after_first)
                  ELSE Ok(<< >>)
        after_second ==
            IF HasSecondFileName(action_code) /\ second.err = "none"
            THEN SliceFrom(after_first, 1 + Len(second.val)) ELSE after_first
        msg == CfdpLv_unpack(after_second)
    IN  IF first.err # "none" THEN first
        ELSE IF second.err # "none" THEN second
        ELSE IF msg.err # "none" THEN msg
        ELSE IF Len(after_second) # 1 + Len(msg.val) THEN Raise("ValueError")
        ELSE Ok([FileStoreResponseTlv(action_code, status_code, first.val, second.val)
                    EXCEPT !.filestore_msg = msg.val])

\* FileStoreResponseTlv.unpack of the TLV at the start of raw_bytes
FileStoreResponseTlv_unpack(raw_bytes) ==
    IF Len(raw_bytes) < 2 THEN Raise("ValueError")
    ELSE IF raw_bytes[1] # FILESTORE_RESPONSE THEN Raise("ValueError")
    ELSE IF Len(raw_bytes) < 2 + raw_bytes[2] \/ raw_bytes[2] < 1 THEN Raise("ValueError")
    ELSE FileStoreResponseTlv_unpack_names(
             raw_bytes[3] \div 16, raw_bytes[3] % 16,
             SubSeq(raw_bytes, 4, 2 + raw_bytes[2]))

(***************************************************************************)
(* The generic CfdpTlv, the typed MessageToUserTlv and the TlvHolder        *)
(* (spacepackets.cfdp.tlv).  A typed TLV owns a CfdpTlv in its field tlv;   *)
(* a holder owns either kind in its field base.                            *)
(***************************************************************************)
\* CfdpTlv(tlv_type, value)
CfdpTlv(tlv_type, value) ==
    IF Len(value) > 255 THEN Raise("ValueError")
    ELSE Ok([tlv_type |-> tlv_type, value |-> value])

\* MessageToUserTlv(msg)
MessageToUserTlv(msg) ==
    LET tlv == CfdpTlv(MESSAGE_TO_USER, msg)
    IN  IF tlv.err # "none" THEN tlv ELSE Ok([tlv |-> tlv.val])

\* the properties tlv_type and value, of a CfdpTlv and of a typed TLV
Tlv_tlv_type(t) == IF "tlv" \in DOMAIN t THEN t.tlv.tlv_type ELSE t.tlv_type
Tlv_value(t) == IF "tlv" \in DOMAIN t THEN t.tlv.value ELSE t.value

\* AbstractTlvBase.__eq__: two TLVs are equal when type and value are
Tlv_eq(a, b) == Tlv_tlv_type(a) = Tlv_tlv_type(b) /\ Tlv_value(a) = Tlv_value(b)

\* MessageToUserTlv.from_tlv that takes a CfdpTlv of any type
MessageToUserTlv_from_tlv_of_any_type(cfdp_tlv) == Ok([tlv |-> cfdp_tlv])

\* MessageToUserTlv.from_tlv(cfdp_tlv)
MessageToUserTlv_from_tlv(cfdp_tlv) ==
    IF cfdp_tlv.tlv_type # MESSAGE_TO_USER THEN Raise("TlvTypeMissmatchError")
    ELSE Ok([tlv |-> cfdp_tlv])

\* TlvHolder(tlv)
TlvHolder(tlv) == [base |-> tlv]

\* TlvHolder.to_msg_to_user: the type of the held TLV is compared with
\* MESSAGE_TO_USER and its value becomes the message of a MessageToUserTlv
TlvHolder_to_msg_to_user(holder) ==
    IF Tlv_tlv_type(holder.base) # MESSAGE_TO_USER THEN Raise("TlvTypeMissmatchError")
    ELSE MessageToUserTlv(Tlv_value(holder.base))

(***************************************************************************)
(* FinishedPdu (spacepackets.cfdp.pdu.finished) with PduConfig.empty():    *)
(* no CRC, entity ids and sequence number of 1 byte, all 0.  The PDU is    *)
(*   20 | pdu_data_length:2 | 11 | 00 00 00 | 05 | parameter byte | TLVs   *)
(* with parameter byte [condition_code:4][0:1][delivery_code:1]            *)
(* [file_delivery_status:2].                                               *)
(***************************************************************************)
\* PduHeader.header_len for entity ids and sequence number of 1 byte
PDU_HEADER_LEN == 7

\* FinishedPdu(delivery_code, file_delivery_status, condition_code,
\* file_store_responses, fault_location): a fault location is kept only with
\* a condition code other than NO_ERROR
FinishedPdu(delivery_code, file_delivery_status, condition_code, file_store_responses, fault_location) ==
    [delivery_code |-> delivery_code, file_delivery_status |-> file_delivery_status,
     condition_code |-> condition_code,
     file_store_responses |-> file_store_responses,
     fault_location |-> IF condition_code = NO_ERROR THEN None ELSE fault_location]

\* the length of the packed file store responses from the n-th on
RECURSIVE fs_responses_len(_, _)
fs_responses_len(responses, n) ==
    IF n > Len(responses) THEN 0
    ELSE FileStoreResponseTlv_packet_len(responses[n]) + fs_responses_len(responses, n + 1)

\* FinishedPdu.fault_location_len
fault_location_len(pdu) ==
    IF pdu.fault_location = None THEN 0 ELSE EntityIdTlv_packet_len(pdu.fault_location)

\* pdu_data_length of the header: the directive code, the parameter byte and
\* the TLVs
pdu_data_field_len(pdu) ==
    1 + 1 + fs_responses_len(pdu.file_store_responses, 1) + fault_location_len(pdu)

\* FinishedPdu.packet_len leaving out the fault location
FinishedPdu_packet_len_no_fault_location(pdu) ==
    PDU_HEADER_LEN + 1 + 1 + fs_responses_len(pdu.file_store_responses, 1)

\* FinishedPdu.packet_len
FinishedPdu_packet_len(pdu) == PDU_HEADER_LEN + pdu_data_field_len(pdu)

\* FileDirectivePduBase.pack: the PDU header and the directive code
FileDirectivePduBase_pack(pdu_data_length, directive_code) ==
    << 32, pdu_data_length \div 256, pdu_data_length % 256, 17, 0, 0, 0, directive_code >>

\* the packed file store responses from the n-th on
RECURSIVE fs_responses_pack(_, _)
fs_responses_pack(responses, n) ==
    IF n > Len(responses) THEN << >>
    ELSE FileStoreResponseTlv_pack(responses[n]) \o fs_responses_pack(responses, n + 1)

\* FinishedPdu.pack
FinishedPdu_pack(pdu) ==
    FileDirectivePduBase_pack(pdu_data_field_len(pdu), FINISHED_PDU)
    \o << pdu.condition_code * 16 + pdu.delivery_code * 4 + pdu.file_delivery_status >>
    \o fs_responses_pack(pdu.file_store_responses, 1)
    \o (IF pdu.fault_location = None THEN << >> ELSE EntityIdTlv_pack(pdu.fault_location))

\* a FinishedPdu that has a fault location whatever its condition code
might_have_fault_location_always(pdu) == TRUE

\* FinishedPdu.might_have_fault_location: only a PDU whose condition code is
\* not NO_ERROR has a fault location
might_have_fault_location(pdu) == pdu.condition_code # NO_ERROR

\* FinishedPdu._unpack_tlvs: the TLVs of rest_of_packet into pdu
RECURSIVE FinishedPdu_unpack_tlvs(_, _)
FinishedPdu_unpack_tlvs(pdu, rest_of_packet) ==
    IF Len(rest_of_packet) = 0 THEN Ok(pdu)
    ELSE IF rest_of_packet[1] = FILESTORE_RESPONSE
    THEN LET tlv == FileStoreResponseTlv_unpack(rest_of_packet)
         IN  IF tlv.err # "none" THEN tlv
             ELSE FinishedPdu_unpack_tlvs(
                      [pdu EXCEPT !.file_store_responses = Append(@, tlv.val)],
                      SliceFrom(rest_of_packet, FileStoreResponseTlv_packet_len(tlv.val)))
    ELSE IF rest_of_packet[1] = ENTITY_ID
    THEN LET tlv == EntityIdTlv_unpack(rest_of_packet)
         IN  IF ~might_have_fault_location(pdu) \/ pdu.fault_location # None
             THEN Raise("ValueError")
             ELSE IF tlv.err # "none" THEN tlv
             ELSE FinishedPdu_unpack_tlvs(
                      [pdu EXCEPT !.fault_location = tlv.val],
                      SliceFrom(rest_of_packet, EntityIdTlv_packet_len(tlv.val)))
    ELSE Raise("ValueError")

\* FinishedPdu.unpack without the comparison of the length of raw_packet with
\* the length the header announces
FinishedPdu_unpack_no_length_check(raw_packet) ==
    IF Len(raw_packet) < PDU_HEADER_LEN + 2 THEN Raise("IndexError")
    ELSE FinishedPdu_unpack_tlvs(
             FinishedPdu((raw_packet[9] \div 4) % 2, raw_packet[9] % 4,
                         raw_packet[9] \div 16, << >>, None),
             SliceFrom(raw_packet, PDU_HEADER_LEN + 2))

\* FinishedPdu.unpack
FinishedPdu_unpack(raw_packet) ==
    IF Len(raw_packet) < PDU_HEADER_LEN + 2 THEN Raise("ValueError")
    ELSE LET pdu_data_length == raw_packet[2] * 256 + raw_packet[3]
         IN  IF Len(raw_packet) < PDU_HEADER_LEN + pdu_data_length \/ pdu_data_length < 2
             THEN Raise("ValueError")
             ELSE IF raw_packet[8] # FINISHED_PDU THEN Raise("ValueError")
             ELSE FinishedPdu_unpack_tlvs(
                      FinishedPdu((raw_packet[9] \div 4) % 2, raw_packet[9] % 4,
                                  raw_packet[9] \div 16, << >>, None),
                      Slice(raw_packet, PDU_HEADER_LEN + 2,
                            PDU_HEADER_LEN + pdu_data_length))

(***************************************************************************)
(* Inputs.                                                                 *)
(***************************************************************************)
PusVersions == {PUS_A, PUS_C, GLOBAL_CONFIG}
ServiceIds == {17}
SubserviceIds == {2}
Apids == {-1, 239}
Sscs == {22}
MessageCounters == {18, 4660}
DestinationIds == {0, 48879}
SpaceTimeRefs == {0, 5}
Times == {CdsShortTimestamp(64, 4660, 1450744508)}

\* the first n bytes of 0x42, 0x38, 0x2E, ...
SrcPattern(n) == [i \in 1..n |-> (66 + 246 * (i - 1)) % 256]
SourceDatas == {SrcPattern(n) : n \in 0..MaxSrcLen}

\* message counters around the widths of the PUS A and the PUS C counter
HeaderMessageCounters == {0, 255, 256, 65535, 65536, 65537}

\* field values of a secondary header at and behind the widths of the fields
HeaderServiceIds == {17, 256}
HeaderDestinationIds == {0, 48879, 65536}
HeaderSpaceTimeRefs == {0, 15, 16}

\* a packed PUS C secondary header whose first byte is replaced by first
SampleHeader(first) ==
    << first >> \o Tail(PusTmSecondaryHeader_pack(
        PusTmSecondaryHeader_init(PUS_C, 17, 2, CdsShortTimestamp(64, 4660, 1450744508),
                                  4660, 48879, 0, [pus_tm_version |-> PUS_C, tm_apid |-> 0]).val).val)
FirstBytes == {0, 16, 32, 37, 48, 240}
HeaderStarts == {SampleHeader(first) : first \in FirstBytes}

\* header starts shorter than a secondary header: no byte, the 4 bytes of
\* test_invalid_sec_header_unpack, and a PUS C header cut to 10 and to 13 bytes
ShortHeaderStarts ==
    {<< >>, << 32, 0, 1, 6 >>, SubSeq(SampleHeader(32), 1, 10), SubSeq(SampleHeader(32), 1, 13)}

NotRun == [err |-> "notrun", val |-> << >>]
NoBytes == [is_none |-> TRUE, bytes |-> << >>]
Bytes(b) == [is_none |-> FALSE, bytes |-> b]

\* the data_length a caller writes into bytes 4 and 5 of a packed packet
LenFields(packet) == {packet[5] * 256 + packet[6], 0, 65535, packet[5] * 256 + packet[6] + 1}
SetLenField(packet, len_field) ==
    [packet EXCEPT ![5] = len_field \div 256, ![6] = len_field % 256]

\* the packet cut by -resize bytes or followed by resize zero bytes
Resize(packet, resize) ==
    IF resize < 0 THEN SubSeq(packet, 1, Len(packet) + resize)
    ELSE packet \o [i \in 1..resize |-> 0]

\* the byte at offset (from 0) inverted
FlipOffsets == {6, 7, 10}
FlipByte(packet, offset) == [packet EXCEPT ![offset + 1] = 255 - packet[offset + 1]]

\* what a caller hands to get_service_from_raw_pus_packet when it holds the
\* packed packet: the packet, its first 7 and 8 bytes, and no bytes
ServiceInputs(packet) ==
    {packet, SubSeq(packet, 1, 7), SubSeq(packet, 1, 8), << >>}

\* the packed packet as a telecommand: the packet type bit of byte 0 set and
\* the CRC-16 appended anew
AsTelecommand(packet) ==
    LET body == [SubSeq(packet, 1, Len(packet) - 2) EXCEPT ![1] = BitOr(packet[1], 16)]
        crc16 == crc_func(body)
    IN  body \o << crc16 \div 256, crc16 % 256 >>

\* what a caller hands to unpack when it holds the packed packet
RawInputs(packet) ==
    {NoBytes, Bytes(<< >>), Bytes(SubSeq(packet, 1, 5)), Bytes(AsTelecommand(packet))}
    \cup {Bytes(Resize(SetLenField(packet, l), r)) :
            l \in LenFields(packet), r \in (0 - MaxDrop)..MaxTrailing}
    \cup {Bytes(Resize(FlipByte(packet, o), r)) : o \in FlipOffsets, r \in 0..MaxTrailing}

\* arguments of Service17Tm(...): the ping reply of the tests, and others
S17Apids == {0, 239}
S17Subservices == {TC_PING, TM_REPLY, 3}
S17Timestamps == {<< >>, [i \in 1..7 |-> 0], CdsShortTimestamp_pack(CdsShortTimestamp(64, 4660, 1450744508))}
S17Sscs == {0, 22}
\* timestamp lengths a caller of Service17Tm.unpack passes
S17TimestampLens == {0, 7}
\* the packed packet of another service: the byte at offset 7 replaced and
\* the CRC-16 computed anew
WithService(packet, service) ==
    LET body == [SubSeq(packet, 1, Len(packet) - 2) EXCEPT ![8] = service]
        crc16 == crc_func(body)
    IN  body \o << crc16 \div 256, crc16 % 256 >>

\* what a caller hands to Service17Tm.unpack when it holds the packed packet:
\* the packet, the packet with the byte at offset 10 inverted, the packet
\* without its last byte, and the packet of service 5
S17Datas(packet) ==
    {packet, FlipByte(packet, 10), SubSeq(packet, 1, Len(packet) - 1),
     WithService(packet, 5)}

\* arguments of FinishedPdu(...) and of the TLVs it carries
DeliveryCodes == {DATA_COMPLETE, DATA_INCOMPLETE}
FileDeliveryStatuses == {DISCARDED_DELIBERATELY, FILE_RETAINED, FILE_STATUS_UNREPORTED}
ConditionCodes == {NO_ERROR, POSITIVE_ACK_LIMIT_REACHED, FILESTORE_REJECTION, CHECK_LIMIT_REACHED}
\* "test.txt" and "test2.txt"
first_file == << 116, 101, 115, 116, 46, 116, 120, 116 >>
second_file == << 116, 101, 115, 116, 50, 46, 116, 120, 116 >>
filestore_reponse_1 ==
    FileStoreResponseTlv(REMOVE_DIR_SNN, REMOVE_DIR_SUCCESS, first_file, << >>)
filestore_reponse_2 ==
    FileStoreResponseTlv(APPEND_FILE_SNP, APPEND_NOT_PERFORMED, first_file, second_file)
FileStoreResponseLists ==
    {<< >>, << filestore_reponse_1 >>, << filestore_reponse_2 >>,
     << filestore_reponse_1, filestore_reponse_2 >>,
     << filestore_reponse_2, filestore_reponse_1 >>}
fault_location_tlv == EntityIdTlv(<< 0, 2 >>)
FaultLocations == {None, fault_location_tlv, EntityIdTlv(<< 0 >>)}

\* the packed PDU followed by the packed EntityIdTlv(entity_id = 0x00), with
\* the pdu_data_length of the header raised by the length of the TLV
WithFaultSource(finish_pdu_raw) ==
    LET invalid_fault_source == EntityIdTlv(<< 0 >>)
        current_size == finish_pdu_raw[2] * 256 + finish_pdu_raw[3]
                            + EntityIdTlv_packet_len(invalid_fault_source)
    IN  [finish_pdu_raw \o EntityIdTlv_pack(invalid_fault_source)
            EXCEPT ![2] = current_size \div 256, ![3] = current_size % 256]

\* what a caller hands to FinishedPdu.unpack when it holds the packed PDU: the
\* PDU, the PDU without its last byte, with one more byte behind it, and with
\* one more fault location
PduInputs(packet) ==
    {packet, SubSeq(packet, 1, Len(packet) - 1), packet \o << 0 >>, WithFaultSource(packet)}

\* the source_data a caller passes to PusTelemetry(...) when it passes one,
\* and the bytes it appends to a buffer
OwnSourceDatas == {<< 66 >>}
AppendedBytes == {1}
\* the pus_version of the objects: PUS C, given or from the defaults
ObjectPusVersions == {PUS_C, GLOBAL_CONFIG}

\* the type codes and the values of the TLVs a caller converts: every byte
\* string over 0x00 and 0x63 ("c") of at most MaxMsgLen bytes
TlvTypes == {FILESTORE_REQUEST, FILESTORE_RESPONSE, MESSAGE_TO_USER, FAULT_HANDLER, FLOW_LABEL, ENTITY_ID}
TlvValues == UNION {[1..n -> {0, 99}] : n \in 0..MaxMsgLen}

(***************************************************************************)
(* State: the process-wide defaults, and the objects and buffers a caller  *)
(* holds.  Each is the result of the operation that made it.               *)
(***************************************************************************)
VARIABLES
    conf,       \* the configuration block of spacepackets.ecss.conf
    tm,         \* PusTelemetry(...) constructed from fields
    wire,       \* tm.pack()
    raw_in,     \* the raw_telemetry of the last PusTelemetry.unpack
    uver,       \* the pus_version of the last PusTelemetry.unpack, see Version
    rx,         \* PusTelemetry.unpack(raw_in, uver)
    repacked,   \* rx.pack()
    hdr_args,   \* the arguments of the last PusTmSecondaryHeader(...)
    hdr,        \* PusTmSecondaryHeader(...)
    hdr_wire,   \* hdr.pack()
    sh_args,    \* the arguments of the last PusTmSecondaryHeader.unpack
    sh,         \* PusTmSecondaryHeader.unpack(...)
    svc_in,     \* the raw_bytearray of the last get_service_from_raw_pus_packet
    svc,        \* get_service_from_raw_pus_packet(svc_in.bytes)
    s17,        \* Service17Tm(...) constructed from fields
    s17_wire,   \* s17.pack()
    s17_in,     \* the arguments of the last Service17Tm.unpack
    s17_rx,     \* Service17Tm.unpack(s17_in.data, s17_in.timestamp_len)
    s17_acc,    \* the values the accessors of s17 return
    pdu,        \* FinishedPdu(...) constructed from fields
    pdu_wire,   \* pdu.pack()
    pdu_in,     \* the raw_packet of the last FinishedPdu.unpack
    pdu_rx,     \* FinishedPdu.unpack(pdu_in)
    pdu_repacked, \* pdu_rx.pack()
    tlv,        \* the TLV a caller holds: CfdpTlv(...) or MessageToUserTlv(...)
    msg_tlv,    \* MessageToUserTlv.from_tlv(tlv)
    held,       \* TlvHolder(tlv).to_msg_to_user()
    default_source_data, \* the bytearray([]) that is the default of the
                \* parameter source_data of PusTelemetry.__init__: one object,
                \* made when the function is defined
    bufs,       \* the bytearray a caller passed as source_data, per object
    objs,       \* the PusTelemetry objects a caller holds, see ObjConstruct
    appended,   \* the bytes a caller appended to get_tm_data() of each object
    packs,      \* pack() of each object
    unpacked    \* PusTelemetry.unpack of the packed bytes of an object

tm_vars == << conf, tm, wire, raw_in, uver, rx, repacked, hdr_args, hdr, hdr_wire, sh_args, sh, svc_in, svc >>
ping_vars == << s17, s17_wire, s17_in, s17_rx, s17_acc >>
pdu_vars == << pdu, pdu_wire, pdu_in, pdu_rx, pdu_repacked >>
tlv_vars == << tlv, msg_tlv, held >>
obj_vars == << default_source_data, bufs, objs, appended, packs, unpacked >>
vars == << tm_vars, ping_vars, pdu_vars, tlv_vars, obj_vars >>

\* the pus_version an operation was given and the PUS version it stood for
\* when the operation ran
Version(pus_version) ==
    [pus_version |-> pus_version,
     resolved |-> IF pus_version = GLOBAL_CONFIG THEN get_pus_tm_version(conf)
                  ELSE pus_version]
NoVersion == [pus_version |-> GLOBAL_CONFIG, resolved |-> GLOBAL_CONFIG]

NoHdrArgs == [version |-> NoVersion, message_counter |-> 0]
NoShArgs == [header_start |-> << >>, version |-> NoVersion]
NoS17In == [data |-> << >>, timestamp_len |-> 0]
\* packed_of names the object whose pack() returned the bytes: "tm" or "rx"
NoSvcIn == [bytes |-> << >>, packed_of |-> "none"]

\* the two PusTelemetry objects of a caller
Objects == {"first", "second"}

\* nothing has been constructed or unpacked yet
Fresh == tm = NotRun /\ rx = NotRun /\ hdr = NotRun /\ sh = NotRun

Init ==
    /\ conf = [pus_tm_version |-> PUS_C, tm_apid |-> 0]
    /\ tm = NotRun /\ wire = NotRun
    /\ raw_in = NoBytes /\ uver = NoVersion
    /\ rx = NotRun /\ repacked = NotRun
    /\ hdr_args = NoHdrArgs /\ hdr = NotRun /\ hdr_wire = NotRun
    /\ sh_args = NoShArgs /\ sh = NotRun
    /\ svc_in = NoSvcIn /\ svc = NotRun
    /\ s17 = NotRun /\ s17_wire = NotRun /\ s17_in = NoS17In
    /\ s17_rx = NotRun /\ s17_acc = NotRun
    /\ tlv = NotRun /\ msg_tlv = NotRun /\ held = NotRun
    /\ default_source_data = << >>
    /\ bufs = [o \in Objects |-> << >>]
    /\ objs = [o \in Objects |-> NotRun]
    /\ appended = [o \in Objects |-> << >>]
    /\ packs = [o \in Objects |-> NotRun]
    /\ unpacked = NotRun
    /\ pdu = NotRun /\ pdu_wire = NotRun /\ pdu_in = << >>
    /\ pdu_rx = NotRun /\ pdu_repacked = NotRun

\* set_pus_tm_version(pus_version)
set_pus_tm_version ==
    \E pus_version \in {PUS_A, PUS_C} :
        /\ pus_version # conf.pus_tm_version
        /\ conf' = [conf EXCEPT !.pus_tm_version = pus_version]
        /\ UNCHANGED << tm, wire, raw_in, uver, rx, repacked, hdr_args, hdr, hdr_wire, sh_args, sh, svc_in, svc >>
        /\ UNCHANGED << ping_vars, pdu_vars, tlv_vars, obj_vars >>

\* tm = PusTelemetry(service_id, subservice_id, time, ssc, source_data, apid, ...)
Construct ==
    \E service_id \in ServiceIds, subservice_id \in SubserviceIds, time \in Times,
       ssc \in Sscs, source_data \in SourceDatas, apid \in Apids,
       message_counter \in MessageCounters, space_time_ref \in SpaceTimeRefs,
       destination_id \in DestinationIds, pus_version \in PusVersions :
        /\ Fresh
        /\ tm' = PusTelemetry_init(service_id, subservice_id, time, ssc, source_data,
                                   apid, message_counter, space_time_ref,
                                   destination_id, pus_version, conf)
        /\ wire' = NotRun /\ raw_in' = NoBytes /\ uver' = NoVersion
        /\ rx' = NotRun /\ repacked' = NotRun
        /\ hdr_args' = NoHdrArgs /\ hdr' = NotRun /\ hdr_wire' = NotRun
        /\ sh_args' = NoShArgs /\ sh' = NotRun
        /\ UNCHANGED << svc_in, svc >>
        /\ UNCHANGED conf
        /\ UNCHANGED << ping_vars, pdu_vars, tlv_vars, obj_vars >>

\* wire = tm.pack()
Pack ==
    /\ tm.err = "none" /\ wire = NotRun /\ rx = NotRun
    /\ wire' = PusTelemetry_pack(tm.val)
    /\ tm' = Ok(PusTelemetry_pack_self(tm.val))
    /\ UNCHANGED << conf, raw_in, uver, rx, repacked, hdr_args, hdr, hdr_wire, sh_args, sh, svc_in, svc >>
    /\ UNCHANGED << ping_vars, pdu_vars, tlv_vars, obj_vars >>

\* rx = PusTelemetry.unpack(raw_telemetry, pus_version)
Unpack ==
    \E raw_telemetry \in (IF wire.err = "none" THEN RawInputs(wire.val)
                          ELSE {NoBytes, Bytes(<< >>)}),
       pus_version \in PusVersions, now \in Times :
        /\ hdr = NotRun /\ sh = NotRun /\ rx = NotRun /\ svc = NotRun
        /\ rx' = PusTelemetry_unpack(raw_telemetry, pus_version, now, conf)
        /\ raw_in' = raw_telemetry
        /\ uver' = Version(pus_version)
        /\ repacked' = NotRun
        /\ UNCHANGED << conf, tm, wire, hdr_args, hdr, hdr_wire, sh_args, sh, svc_in, svc >>
        /\ UNCHANGED << ping_vars, pdu_vars, tlv_vars, obj_vars >>

\* repacked = rx.pack()
Repack ==
    /\ rx.err = "none" /\ repacked = NotRun
    /\ repacked' = PusTelemetry_pack(rx.val)
    /\ rx' = Ok(PusTelemetry_pack_self(rx.val))
    /\ UNCHANGED << conf, tm, wire, raw_in, uver, hdr_args, hdr, hdr_wire, sh_args, sh, svc_in, svc >>
    /\ UNCHANGED << ping_vars, pdu_vars, tlv_vars, obj_vars >>

\* hdr = PusTmSecondaryHeader(pus_version, service_id, subservice_id, time,
\*                            message_counter, destination_id, spacecraft_time_ref)
SecHdrInit ==
    \E pus_version \in PusVersions, message_counter \in HeaderMessageCounters,
       service_id \in HeaderServiceIds, subservice_id \in SubserviceIds, time \in Times,
       destination_id \in HeaderDestinationIds, spacecraft_time_ref \in HeaderSpaceTimeRefs :
        /\ Fresh
        /\ hdr_args' = [version |-> Version(pus_version), message_counter |-> message_counter]
        /\ hdr' = PusTmSecondaryHeader_init(pus_version, service_id, subservice_id,
                                            time, message_counter, destination_id,
                                            spacecraft_time_ref, conf)
        /\ hdr_wire' = NotRun
        /\ sh_args' = NoShArgs /\ sh' = NotRun
        /\ UNCHANGED << svc_in, svc >>
        /\ tm' = NotRun /\ wire' = NotRun /\ raw_in' = NoBytes /\ uver' = NoVersion
        /\ rx' = NotRun /\ repacked' = NotRun
        /\ UNCHANGED conf
        /\ UNCHANGED << ping_vars, pdu_vars, tlv_vars, obj_vars >>

\* hdr_wire = hdr.pack()
SecHdrPack ==
    /\ hdr.err = "none" /\ hdr_wire = NotRun
    /\ hdr_wire' = PusTmSecondaryHeader_pack(hdr.val)
    /\ UNCHANGED << conf, tm, wire, raw_in, uver, rx, repacked, hdr_args, hdr, sh_args, sh, svc_in, svc >>
    /\ UNCHANGED << ping_vars, pdu_vars, tlv_vars, obj_vars >>

\* sh = PusTmSecondaryHeader.unpack(header_start, pus_version)
SecHdrUnpack ==
    \E header_start \in HeaderStarts \cup ShortHeaderStarts, pus_version \in PusVersions, now \in Times :
        /\ Fresh
        /\ sh_args' = [header_start |-> header_start, version |-> Version(pus_version)]
        /\ sh' = PusTmSecondaryHeader_unpack(header_start, pus_version, now, conf)
        /\ UNCHANGED << svc_in, svc >>
        /\ hdr_args' = NoHdrArgs /\ hdr' = NotRun /\ hdr_wire' = NotRun
        /\ tm' = NotRun /\ wire' = NotRun /\ raw_in' = NoBytes /\ uver' = NoVersion
        /\ rx' = NotRun /\ repacked' = NotRun
        /\ UNCHANGED conf
        /\ UNCHANGED << ping_vars, pdu_vars, tlv_vars, obj_vars >>

\* svc = get_service_from_raw_pus_packet(raw_bytearray), on bytes of tm.pack()
\* before they are unpacked or on bytes of rx.pack()
GetService ==
    \E packed_of \in {"tm", "rx"} :
        LET packed == IF packed_of = "tm" THEN wire ELSE repacked
        IN  /\ svc = NotRun /\ packed.err = "none"
            /\ packed_of = "tm" => rx = NotRun
            /\ \E raw_bytearray \in ServiceInputs(packed.val) :
                   /\ svc_in' = [bytes |-> raw_bytearray, packed_of |-> packed_of]
                   /\ svc' = get_service_from_raw_pus_packet(raw_bytearray)
            /\ UNCHANGED << conf, tm, wire, raw_in, uver, rx, repacked,
                            hdr_args, hdr, hdr_wire, sh_args, sh >>
            /\ UNCHANGED << ping_vars, pdu_vars, tlv_vars, obj_vars >>

Next ==
    \/ set_pus_tm_version
    \/ Construct
    \/ Pack
    \/ Unpack
    \/ Repack
    \/ SecHdrInit
    \/ SecHdrPack
    \/ SecHdrUnpack
    \/ GetService

Spec == Init /\ [][Next]_vars

(***************************************************************************)
(* Service 17: a caller constructs a Service17Tm, packs it, reads its      *)
(* properties and unpacks the packed bytes.                                *)
(***************************************************************************)
\* s17 = Service17Tm(apid, subservice, timestamp, ssc, source_data, ...)
S17Construct ==
    \E apid \in S17Apids, subservice \in S17Subservices, timestamp \in S17Timestamps,
       ssc \in S17Sscs, source_data \in SourceDatas,
       space_time_ref \in SpaceTimeRefs, destination_id \in DestinationIds :
        /\ s17 = NotRun
        /\ s17' = Ok(Service17Tm_init(apid, subservice, timestamp, ssc, source_data,
                                      0, space_time_ref, destination_id))
        /\ UNCHANGED << s17_wire, s17_in, s17_rx, s17_acc >>
        /\ UNCHANGED << tm_vars, pdu_vars, tlv_vars, obj_vars >>

\* s17_wire = s17.pack()
S17Pack ==
    /\ s17.err = "none" /\ s17_wire = NotRun
    /\ s17_wire' = Service17Tm_pack(s17.val)
    /\ UNCHANGED << s17, s17_in, s17_rx, s17_acc >>
    /\ UNCHANGED << tm_vars, pdu_vars, tlv_vars, obj_vars >>

\* reads of s17.sp_header, s17.ccsds_version, s17.packet_id, ...
S17Accessors ==
    /\ s17.err = "none" /\ s17_acc = NotRun
    /\ s17_acc' = Ok([sp_header |-> Service17Tm_sp_header(s17.val),
                      ccsds_version |-> Service17Tm_ccsds_version(s17.val),
                      packet_id |-> Service17Tm_packet_id(s17.val),
                      packet_seq_control |-> Service17Tm_packet_seq_control(s17.val),
                      service |-> Service17Tm_service(s17.val),
                      timestamp |-> Service17Tm_timestamp(s17.val),
                      subservice |-> Service17Tm_subservice(s17.val),
                      source_data |-> Service17Tm_source_data(s17.val)])
    /\ UNCHANGED << s17, s17_wire, s17_in, s17_rx >>
    /\ UNCHANGED << tm_vars, pdu_vars, tlv_vars, obj_vars >>

\* s17_rx = Service17Tm.unpack(data, timestamp_len)
S17Unpack ==
    /\ s17_wire.err = "none" /\ s17_rx = NotRun
    /\ \E data \in S17Datas(s17_wire.val), timestamp_len \in S17TimestampLens :
           /\ s17_in' = [data |-> data, timestamp_len |-> timestamp_len]
           /\ s17_rx' = Service17Tm_unpack(data, timestamp_len)
    /\ UNCHANGED << s17, s17_wire, s17_acc >>
    /\ UNCHANGED << tm_vars, pdu_vars, tlv_vars, obj_vars >>

NextPing ==
    \/ S17Construct
    \/ S17Pack
    \/ S17Accessors
    \/ S17Unpack

SpecPing == Init /\ [][NextPing]_vars

(***************************************************************************)
(* CFDP: a caller constructs a FinishedPdu, packs it, unpacks bytes and    *)
(* packs the unpacked PDU.                                                 *)
(***************************************************************************)
\* pdu = FinishedPdu(delivery_code, file_delivery_status, condition_code, ...)
PduConstruct ==
    \E delivery_code \in DeliveryCodes, file_delivery_status \in FileDeliveryStatuses,
       condition_code \in ConditionCodes,
       file_store_responses \in FileStoreResponseLists,
       fault_location \in FaultLocations :
        /\ pdu = NotRun
        /\ pdu' = Ok(FinishedPdu(delivery_code, file_delivery_status, condition_code,
                                 file_store_responses, fault_location))
        /\ UNCHANGED << pdu_wire, pdu_in, pdu_rx, pdu_repacked >>
        /\ UNCHANGED << tm_vars, ping_vars, tlv_vars, obj_vars >>

\* pdu_wire = pdu.pack()
PduPack ==
    /\ pdu.err = "none" /\ pdu_wire = NotRun
    /\ pdu_wire' = Ok(FinishedPdu_pack(pdu.val))
    /\ UNCHANGED << pdu, pdu_in, pdu_rx, pdu_repacked >>
    /\ UNCHANGED << tm_vars, ping_vars, tlv_vars, obj_vars >>

\* pdu_rx = FinishedPdu.unpack(raw_packet)
PduUnpack ==
    /\ pdu_wire.err = "none" /\ pdu_rx = NotRun
    /\ \E raw_packet \in PduInputs(pdu_wire.val) :
           /\ pdu_in' = raw_packet
           /\ pdu_rx' = FinishedPdu_unpack(raw_packet)
    /\ UNCHANGED << pdu, pdu_wire, pdu_repacked >>
    /\ UNCHANGED << tm_vars, ping_vars, tlv_vars, obj_vars >>

\* pdu_repacked = pdu_rx.pack()
PduRepack ==
    /\ pdu_rx.err = "none" /\ pdu_repacked = NotRun
    /\ pdu_repacked' = Ok(FinishedPdu_pack(pdu_rx.val))
    /\ UNCHANGED << pdu, pdu_wire, pdu_in, pdu_rx >>
    /\ UNCHANGED << tm_vars, ping_vars, tlv_vars, obj_vars >>

NextCfdp ==
    \/ PduConstruct
    \/ PduPack
    \/ PduUnpack
    \/ PduRepack

SpecCfdp == Init /\ [][NextCfdp]_vars

(***************************************************************************)
(* TLVs: a caller builds a CfdpTlv or a MessageToUserTlv and converts it   *)
(* with MessageToUserTlv.from_tlv and with a TlvHolder.                    *)
(***************************************************************************)
\* tlv = CfdpTlv(tlv_type, value)
TlvConstruct ==
    \E tlv_type \in TlvTypes, value \in TlvValues :
        /\ tlv = NotRun
        /\ tlv' = CfdpTlv(tlv_type, value)
        /\ UNCHANGED << msg_tlv, held >>
        /\ UNCHANGED << tm_vars, ping_vars, pdu_vars, obj_vars >>

\* tlv = MessageToUserTlv(msg)
MsgToUserConstruct ==
    \E msg \in TlvValues :
        /\ tlv = NotRun
        /\ tlv' = MessageToUserTlv(msg)
        /\ UNCHANGED << msg_tlv, held >>
        /\ UNCHANGED << tm_vars, ping_vars, pdu_vars, obj_vars >>

\* msg_tlv = MessageToUserTlv.from_tlv(cfdp_tlv = tlv), tlv a CfdpTlv
FromTlv ==
    /\ tlv.err = "none" /\ "tlv" \notin DOMAIN tlv.val /\ msg_tlv = NotRun
    /\ msg_tlv' = MessageToUserTlv_from_tlv(tlv.val)
    /\ UNCHANGED << tlv, held >>
    /\ UNCHANGED << tm_vars, ping_vars, pdu_vars, obj_vars >>

\* held = TlvHolder(tlv).to_msg_to_user()
HolderToMsgToUser ==
    /\ tlv.err = "none" /\ held = NotRun
    /\ held' = TlvHolder_to_msg_to_user(TlvHolder(tlv.val))
    /\ UNCHANGED << tlv, msg_tlv >>
    /\ UNCHANGED << tm_vars, ping_vars, pdu_vars, obj_vars >>

NextTlv ==
    \/ TlvConstruct
    \/ MsgToUserConstruct
    \/ FromTlv
    \/ HolderToMsgToUser

SpecTlv == Init /\ [][NextTlv]_vars

(***************************************************************************)
(* Objects: a caller holds two PusTelemetry objects, constructed with or   *)
(* without a source_data argument, appends to the buffers get_tm_data()    *)
(* returns, packs the objects and changes the default PUS TM version.      *)
(* An object refers to its buffer: buf is "default" for the default of     *)
(* __init__ and "own" for the bytearray the caller passed.                 *)
(***************************************************************************)
\* PusTelemetry.get_tm_data of object o: the buffer self._source_data is
get_tm_data(o) ==
    IF objs[o].val.buf = "default" THEN default_source_data ELSE bufs[o]

\* the fields of an object, with the content of the buffer it refers to
SelfOf(obj, default, own) ==
    [obj.val.tm EXCEPT !.source_data = IF obj.val.buf = "default" THEN default ELSE own]

\* the fields of object o, with the present content of its buffer
Self(o) == SelfOf(objs[o], default_source_data, bufs[o])

\* objs[o] = PusTelemetry(service_id, subservice_id, time, ssc, ...) without
\* a source_data argument
ObjConstruct(o) ==
    \E time \in Times, pus_version \in ObjectPusVersions :
        LET pus_tm == PusTelemetry_init(17, 2, time, 22, default_source_data, 239,
                                        0, 0, 0, pus_version, conf)
        IN  /\ objs[o] = NotRun
            /\ objs' = [objs EXCEPT ![o] =
                   IF pus_tm.err # "none" THEN pus_tm
                   ELSE Ok([tm |-> pus_tm.val, buf |-> "default",
                            pus_version |-> pus_version,
                            default_version |-> conf.pus_tm_version])]
            /\ UNCHANGED << conf, default_source_data, bufs, appended, packs, unpacked >>
            /\ UNCHANGED << tm, wire, raw_in, uver, rx, repacked, hdr_args, hdr, hdr_wire, sh_args, sh, svc_in, svc >>
            /\ UNCHANGED << ping_vars, pdu_vars, tlv_vars >>

\* objs[o] = PusTelemetry(..., source_data = bytearray(...))
ObjConstructWithData(o) ==
    \E time \in Times, pus_version \in ObjectPusVersions, source_data \in OwnSourceDatas :
        LET pus_tm == PusTelemetry_init(17, 2, time, 22, source_data, 239,
                                        0, 0, 0, pus_version, conf)
        IN  /\ objs[o] = NotRun
            /\ bufs' = [bufs EXCEPT ![o] = source_data]
            /\ objs' = [objs EXCEPT ![o] =
                   IF pus_tm.err # "none" THEN pus_tm
                   ELSE Ok([tm |-> pus_tm.val, buf |-> "own",
                            pus_version |-> pus_version,
                            default_version |-> conf.pus_tm_version])]
            /\ UNCHANGED << conf, default_source_data, appended, packs, unpacked >>
            /\ UNCHANGED << tm, wire, raw_in, uver, rx, repacked, hdr_args, hdr, hdr_wire, sh_args, sh, svc_in, svc >>
            /\ UNCHANGED << ping_vars, pdu_vars, tlv_vars >>

\* objs[o].get_tm_data().append(b)
ObjAppend(o) ==
    \E b \in AppendedBytes :
        /\ objs[o].err = "none" /\ Len(appended[o]) < MaxAppend
        /\ IF objs[o].val.buf = "default"
           THEN /\ default_source_data' = Append(default_source_data, b)
                /\ UNCHANGED bufs
           ELSE /\ bufs' = [bufs EXCEPT ![o] = Append(@, b)]
                /\ UNCHANGED default_source_data
        /\ appended' = [appended EXCEPT ![o] = Append(@, b)]
        /\ UNCHANGED << conf, objs, packs, unpacked >>
        /\ UNCHANGED << tm, wire, raw_in, uver, rx, repacked, hdr_args, hdr, hdr_wire, sh_args, sh, svc_in, svc >>
        /\ UNCHANGED << ping_vars, pdu_vars, tlv_vars >>

\* packs[o] = objs[o].pack()
ObjPack(o) ==
    /\ objs[o].err = "none" /\ packs[o] = NotRun
    /\ packs' = [packs EXCEPT ![o] = PusTelemetry_pack(Self(o))]
    /\ objs' = [objs EXCEPT ![o] =
           Ok([@.val EXCEPT !.tm = [PusTelemetry_pack_self(Self(o))
                                        EXCEPT !.source_data = objs[o].val.tm.source_data]])]
    /\ UNCHANGED << conf, default_source_data, bufs, appended, unpacked >>
    /\ UNCHANGED << tm, wire, raw_in, uver, rx, repacked, hdr_args, hdr, hdr_wire, sh_args, sh, svc_in, svc >>
    /\ UNCHANGED << ping_vars, pdu_vars, tlv_vars >>

\* unpacked = PusTelemetry.unpack(packs[o]) with the default pus_version
ObjUnpack(o) ==
    \E now \in Times :
        /\ packs[o].err = "none" /\ unpacked = NotRun
        /\ unpacked' = PusTelemetry_unpack(Bytes(packs[o].val), GLOBAL_CONFIG, now, conf)
        /\ UNCHANGED << conf, default_source_data, bufs, objs, appended, packs >>
        /\ UNCHANGED << tm, wire, raw_in, uver, rx, repacked, hdr_args, hdr, hdr_wire, sh_args, sh, svc_in, svc >>
        /\ UNCHANGED << ping_vars, pdu_vars, tlv_vars >>

NextObjects ==
    \/ set_pus_tm_version
    \/ \E o \in Objects : ObjConstruct(o)
    \/ \E o \in Objects : ObjConstructWithData(o)
    \/ \E o \in Objects : ObjAppend(o)
    \/ \E o \in Objects : ObjPack(o)
    \/ \E o \in Objects : ObjUnpack(o)

SpecObjects == Init /\ [][NextObjects]_vars

(***************************************************************************)
(* What the claims speak of.                                               *)
(***************************************************************************)
\* expected = data_length + 7, read from bytes 4 and 5 of a buffer of >= 6 bytes
Expected(bytes) == bytes[5] * 256 + bytes[6] + 7

\* the size of the secondary header of a PUS version with a 7-byte timestamp
SecHdrLen(version) == IF version = PUS_A THEN 7 + 4 ELSE 7 + 7

\* the last unpack was given a buffer that holds a space packet header
UnpackedBuffer == rx # NotRun /\ ~raw_in.is_none /\ Len(raw_in.bytes) >= 6

\* bytes is closed by a big-endian CRC-16 over all bytes before it
CrcCloses(bytes) ==
    /\ Len(bytes) >= 2
    /\ LET crc16 == crc_func(SubSeq(bytes, 1, Len(bytes) - 2))
       IN  /\ bytes[Len(bytes) - 1] * 256 + bytes[Len(bytes)] = crc16
           /\ CrcStep[CrcStep[crc16, bytes[Len(bytes) - 1]], bytes[Len(bytes)]] = 0

(***************************************************************************)
(* C1: the bytes pack() returns, for a PusTelemetry constructed from       *)
(* fields and for one returned by unpack, have CRC-16/CCITT-FALSE 0 over   *)
(* the whole packet, and their last two bytes are the CRC of all bytes     *)
(* before them, high byte first.                                           *)
(***************************************************************************)
C1_PackedCrcCloses ==
    /\ wire.err = "none" => CrcCloses(wire.val)
    /\ repacked.err = "none" => CrcCloses(repacked.val)

\* pack() has returned bytes for a constructed PUS C packet and for a packet
\* that unpack returned as PUS A
C1_Witness ==
    /\ wire.err = "none" /\ repacked.err = "none"
    /\ tm.val.secondary_packet_header.pus_version = PUS_C
    /\ rx.val.secondary_packet_header.pus_version = PUS_A
    /\ Len(rx.val.source_data) > 0

(***************************************************************************)
(* C2: for every PusTelemetry constructed from fields, data_length is      *)
(* sec_hdr_len + len(source_data) + 2 - 1 with sec_hdr_len = 7 + 4 for     *)
(* PUS A and 7 + 7 for PUS C, and pack() returns get_packet_size() =       *)
(* data_length + 7 bytes; a PUS C packet without source data has           *)
(* data_length 15 and 22 bytes.                                            *)
(***************************************************************************)
C2_LengthField ==
    tm.err = "none" =>
        LET version == tm.val.secondary_packet_header.pus_version
            data_length == tm.val.space_packet_header.data_length
        IN  /\ data_length = SecHdrLen(version) + Len(tm.val.source_data) + 2 - 1
            /\ get_packet_size(tm.val) = data_length + 7
            /\ (version = PUS_C /\ tm.val.source_data = << >>) =>
                   (data_length = 15 /\ get_packet_size(tm.val) = 22)
            /\ wire # NotRun =>
                   (wire.err = "none" /\ Len(wire.val) = get_packet_size(tm.val))

(***************************************************************************)
(* C3: for every PusTelemetry E constructed from in-range fields, of       *)
(* either PUS version, E.pack() returns bytes, and unpacking them with the *)
(* PUS version of E returns a packet equal to E on service, subservice,    *)
(* apid, sequence count, message counter, destination id, spacecraft time  *)
(* reference, timestamp and source data.                                   *)
(***************************************************************************)
C3_UnpackOfPack ==
    (tm.err = "none" /\ wire # NotRun) =>
        /\ wire.err = "none"
        /\ (/\ rx # NotRun
            /\ raw_in = Bytes(wire.val)
            /\ uver.resolved = tm.val.secondary_packet_header.pus_version) =>
               /\ rx.err = "none"
               /\ rx.val.space_packet_header = tm.val.space_packet_header
               /\ \A f \in {"pus_version", "service_id", "subservice_id",
                            "message_counter", "destination_id",
                            "spacecraft_time_ref", "time"} :
                      rx.val.secondary_packet_header[f] = tm.val.secondary_packet_header[f]
               /\ rx.val.source_data = tm.val.source_data

(***************************************************************************)
(* C4: PusTelemetry.unpack raises ValueError and returns no packet when    *)
(* its input is None, is empty, or is shorter than expected = data_length  *)
(* + 7 of its space packet header.                                         *)
(***************************************************************************)
TooShort(raw) ==
    \/ raw.is_none
    \/ Len(raw.bytes) < 6
    \/ Len(raw.bytes) < Expected(raw.bytes)

C4_ShortInputRaises ==
    (rx # NotRun /\ TooShort(raw_in)) => rx.err = "ValueError"

\* unpack was given 20 bytes whose data_length field is 0xFFFF
C4_Witness ==
    /\ rx.err = "ValueError"
    /\ ~raw_in.is_none /\ Len(raw_in.bytes) = 20
    /\ raw_in.bytes[5] = 255 /\ raw_in.bytes[6] = 255

(***************************************************************************)
(* C5: PusTelemetry.unpack fails (InvalidTmCrc16) and returns no packet    *)
(* when the CRC-16 over the first expected = data_length + 7 bytes of its  *)
(* input is not 0, as after one byte of a packed packet was changed.       *)
(***************************************************************************)
C5_BadCrcRaises ==
    (/\ UnpackedBuffer
     /\ Len(raw_in.bytes) >= Expected(raw_in.bytes)
     /\ crc_func(Slice(raw_in.bytes, 0, Expected(raw_in.bytes))) # 0) =>
        rx.err # "none"

(***************************************************************************)
(* C6: when the input is longer than expected = data_length + 7, the       *)
(* source data unpack decodes is bytes[6 + sec_hdr_len .. expected - 2]:   *)
(* without the two CRC bytes and without the bytes behind expected.        *)
(***************************************************************************)
C6_SourceDataOfPrefix ==
    (/\ UnpackedBuffer /\ rx.err = "none"
     /\ Len(raw_in.bytes) > Expected(raw_in.bytes)) =>
        rx.val.source_data =
            Slice(raw_in.bytes,
                  6 + SecHdrLen(rx.val.secondary_packet_header.pus_version),
                  Expected(raw_in.bytes) - 2)

(***************************************************************************)
(* C7: for every buffer B that unpack accepts and whose CRC closes over    *)
(* its first expected = data_length + 7 bytes, with or without bytes       *)
(* behind them, PusTelemetry.unpack(B).pack() is B[0 .. expected].         *)
(***************************************************************************)
C7_PackOfUnpack ==
    (/\ UnpackedBuffer /\ rx.err = "none" /\ repacked # NotRun
     /\ crc_func(Slice(raw_in.bytes, 0, Expected(raw_in.bytes))) = 0) =>
        /\ repacked.err = "none"
        /\ repacked.val = Slice(raw_in.bytes, 0, Expected(raw_in.bytes))

(***************************************************************************)
(* C8: PusTelemetry.unpack raises ValueError when the data_length of the   *)
(* input is too small for a PUS TM, data_length + 7 < 6 + secondary header *)
(* size + 2, also when the buffer is long enough for a complete TM.        *)
(***************************************************************************)
C8_SmallLengthFieldRaises ==
    (/\ UnpackedBuffer
     /\ Expected(raw_in.bytes) < 6 + SecHdrLen(uver.resolved) + 2) =>
        rx.err = "ValueError"

(***************************************************************************)
(* C9: PusTmSecondaryHeader(...) raises ValueError exactly when the        *)
(* message counter exceeds its width, message_counter > 0xFF for PUS A and *)
(* message_counter > 0xFFFF for PUS C, so every PUS C header that is       *)
(* constructed has message_counter <= 0xFFFF.                              *)
(***************************************************************************)
C9_MessageCounterWidth ==
    hdr # NotRun =>
        LET version == hdr_args.version.resolved
            widest == IF version = PUS_A THEN 255 ELSE 65535
        IN  /\ hdr.err = "ValueError" <=> hdr_args.message_counter > widest
            /\ (hdr.err = "none" /\ hdr.val.pus_version = PUS_C) =>
                   hdr.val.message_counter <= 65535

(***************************************************************************)
(* C10: PusTmSecondaryHeader.unpack fails when the version field in the    *)
(* first byte of the header is not that of the requested version: not 0    *)
(* when unpacking as PUS A, not 2 when unpacking as PUS C.                 *)
(***************************************************************************)
VersionField(header_start, version) ==
    IF version = PUS_A THEN (header_start[1] \div 16) % 8
    ELSE header_start[1] \div 16

C10_VersionMismatchRaises ==
    (/\ sh # NotRun /\ Len(sh_args.header_start) > 0
     /\ LET version == sh_args.version.resolved
        IN  VersionField(sh_args.header_start, version)
                # (IF version = PUS_A THEN 0 ELSE 2)) =>
        sh.err # "none"

(***************************************************************************)
(* The fields of a secondary header are within the widths they have on the *)
(* wire: service and subservice 8 bits, the message counter 8 bits (PUS A) *)
(* or 16 bits (PUS C), and for PUS C the destination id 16 bits and the    *)
(* spacecraft time reference 4 bits.                                       *)
(***************************************************************************)
InWidths(h) ==
    /\ h.service_id \in 0..255 /\ h.subservice_id \in 0..255
    /\ h.pus_version = PUS_A => h.message_counter \in 0..255
    /\ h.pus_version = PUS_C =>
           /\ h.message_counter \in 0..65535
           /\ h.destination_id \in 0..65535
           /\ h.spacecraft_time_ref \in 0..15

C12_PackNeverFails ==
    /\ (hdr_wire # NotRun /\ InWidths(hdr.val)) =>
           /\ hdr_wire.err = "none"
           /\ hdr.val.pus_version = PUS_A =>
                  hdr_wire.val = << 0, hdr.val.service_id, hdr.val.subservice_id,
                                    hdr.val.message_counter >>
                                 \o CdsShortTimestamp_pack(hdr.val.time)
    /\ (wire # NotRun /\ InWidths(tm.val.secondary_packet_header)) =>
           wire.err = "none"

(***************************************************************************)
(* C13: a secondary header with a field behind its width (destination_id > *)
(* 0xFFFF, spacecraft_time_ref > 0xF, message_counter > 0xFFFF for PUS C,  *)
(* service or subservice > 0xFF) is refused by the constructor or by       *)
(* pack(): pack() returns no bytes for it.                                 *)
(***************************************************************************)
C13_OverflowRaises ==
    (hdr_wire # NotRun /\ ~InWidths(hdr.val)) => hdr_wire.err # "none"

(***************************************************************************)
(* C14: PusTmSecondaryHeader.unpack raises ValueError, and no other error, *)
(* for every input shorter than the secondary header of the requested PUS  *)
(* version, 4 + 7 bytes for PUS A and 7 + 7 bytes for PUS C, the empty     *)
(* input included.                                                         *)
(***************************************************************************)
C14_ShortHeaderRaisesValueError ==
    (/\ sh # NotRun
     /\ Len(sh_args.header_start) < SecHdrLen(sh_args.version.resolved)) =>
        sh.err = "ValueError"

(***************************************************************************)
(* C15: get_service_from_raw_pus_packet(P) returns the service of the      *)
(* packet whose pack() returned P, for PUS A and for PUS C, and raises     *)
(* ValueError for every input shorter than 8 bytes.                        *)
(***************************************************************************)
C15_ServiceFromRaw ==
    svc # NotRun =>
        LET packet == IF svc_in.packed_of = "tm" THEN tm ELSE rx
            packed == IF svc_in.packed_of = "tm" THEN wire ELSE repacked
        IN  /\ Len(svc_in.bytes) < 8 => svc.err = "ValueError"
            /\ svc_in.bytes = packed.val =>
                   (/\ svc.err = "none"
                    /\ svc.val = packet.val.secondary_packet_header.service_id)

\* the service was read from a packed PUS A packet and is 238, the service
\* of a packet that was unpacked from bytes whose service byte was inverted
C15_Witness ==
    /\ svc.err = "none" /\ svc.val = 238
    /\ svc_in.packed_of = "rx" /\ svc_in.bytes = repacked.val
    /\ rx.val.secondary_packet_header.pus_version = PUS_A

(***************************************************************************)
(* C16: a PusTelemetry constructed from fields reports valid = True        *)
(* without any unpack having taken place, before and after pack().         *)
(***************************************************************************)
C16_ConstructedIsValid ==
    tm.err = "none" => tm.val.valid = TRUE

(***************************************************************************)
(* C17: every PusTelemetry, constructed from fields or returned by unpack, *)
(* has packet type TM (0) in its space packet header.                      *)
(***************************************************************************)
C17_PacketTypeIsTm ==
    /\ tm.err = "none" => tm.val.space_packet_header.packet_type = PACKET_TYPE_TM
    /\ rx.err = "none" => rx.val.space_packet_header.packet_type = PACKET_TYPE_TM

(***************************************************************************)
(* C18: Service17Tm is a transparent wrapper.  pack() returns the bytes of *)
(* the wrapped PusTm's pack(); each property (service, subservice,         *)
(* source_data, timestamp, sp_header, packet_id, packet_seq_control)       *)
(* returns the value of the wrapped PusTm; and Service17Tm.unpack of the   *)
(* packed bytes returns a Service17Tm with service 17 and the subservice   *)
(* of the packed one.                                                      *)
(***************************************************************************)
C18_Service17Wrapper ==
    LET pus_tm == s17.val.pus_tm
    IN  /\ s17_wire # NotRun => s17_wire = PusTm_pack(pus_tm)
        /\ s17_acc # NotRun =>
               /\ s17_acc.val.service = pus_tm.pus_tm_sec_header.service
               /\ s17_acc.val.subservice = pus_tm.pus_tm_sec_header.subservice
               /\ s17_acc.val.source_data = pus_tm.source_data
               /\ s17_acc.val.timestamp = pus_tm.pus_tm_sec_header.timestamp
               /\ s17_acc.val.sp_header = pus_tm.space_packet_header
               /\ s17_acc.val.packet_id = PacketId(pus_tm.space_packet_header)
               /\ s17_acc.val.packet_seq_control = PacketSeqCtrl(pus_tm.space_packet_header)
        /\ (/\ s17_rx # NotRun /\ s17_in.data = s17_wire.val
            /\ s17_in.timestamp_len = Len(pus_tm.pus_tm_sec_header.timestamp)) =>
               /\ s17_rx.err = "none"
               /\ Service17Tm_service(s17_rx.val) = 17
               /\ Service17Tm_service(s17_rx.val) = Service17Tm_service(s17.val)
               /\ Service17Tm_subservice(s17_rx.val) = Service17Tm_subservice(s17.val)

\* the ping reply (subservice 2, apid 0xEF, sequence count 22, timestamp of 7
\* zero bytes, no source data) was packed to 22 bytes with data_length 15,
\* its properties were read, and the packed bytes were unpacked
C18_Witness ==
    /\ s17_rx.err = "none" /\ s17_acc.err = "none"
    /\ s17_in.data = s17_wire.val /\ Len(s17_wire.val) = 22
    /\ s17_acc.val.sp_header.data_length = 15 /\ s17_acc.val.sp_header.apid = 239
    /\ s17_acc.val.packet_seq_control.seq_count = 22
    /\ s17_acc.val.timestamp = [i \in 1..7 |-> 0]
    /\ Service17Tm_subservice(s17_rx.val) = TM_REPLY

(***************************************************************************)
(* C19: for every FinishedPdu without CRC and with entity ids and sequence *)
(* number of 1 byte, packet_len is 9 plus the packet_len of the fault      *)
(* location TLV, if there is one, and of every file store response TLV,    *)
(* and pack() returns packet_len bytes: 9 for the empty PDU, 13 with a     *)
(* fault location of 4 bytes, 22 with one response of 13 bytes, 49 with    *)
(* responses of 13 and 23 bytes and a fault location of 4 bytes.           *)
(***************************************************************************)
TlvBytes(p) ==
    Len(fs_responses_pack(p.file_store_responses, 1))
        + (IF p.fault_location = None THEN 0 ELSE Len(EntityIdTlv_pack(p.fault_location)))

C19_FinishedPduLength ==
    pdu # NotRun =>
        LET p == pdu.val
            packet_len == FinishedPdu_packet_len(p)
        IN  /\ packet_len = 9 + TlvBytes(p)
            /\ pdu_wire # NotRun => Len(pdu_wire.val) = packet_len
            /\ (p.file_store_responses = << >> /\ p.fault_location = None) =>
                   packet_len = 9
            /\ (p.file_store_responses = << >> /\ p.fault_location = fault_location_tlv) =>
                   packet_len = 13
            /\ (/\ p.file_store_responses = << filestore_reponse_1 >>
                /\ p.fault_location = None) => packet_len = 22
            /\ (/\ p.file_store_responses = << filestore_reponse_1, filestore_reponse_2 >>
                /\ p.fault_location = fault_location_tlv) => packet_len = 49

\* the PDU with two file store responses and a fault location was packed to
\* 49 bytes
C19_Witness ==
    /\ pdu_wire.err = "none" /\ Len(pdu_wire.val) = 49
    /\ pdu.val.file_store_responses = << filestore_reponse_1, filestore_reponse_2 >>
    /\ pdu.val.fault_location = fault_location_tlv

(***************************************************************************)
(* C20: for every FinishedPdu F, with or without fault location and file   *)
(* store responses, FinishedPdu.unpack(F.pack()) equals F on delivery      *)
(* code, file delivery status, condition code, fault location and the      *)
(* list of file store responses, packing the unpacked PDU returns the      *)
(* bytes of F.pack(), and unpacking F.pack() without its last byte raises  *)
(* ValueError.  The empty PDU packs to 20 00 02 11 00 00 00 05 03.         *)
(***************************************************************************)
C20_FinishedPduRoundTrip ==
    /\ (pdu_rx # NotRun /\ pdu_in = pdu_wire.val) =>
           /\ pdu_rx.err = "none"
           /\ pdu_rx.val = pdu.val
           /\ pdu_repacked # NotRun => pdu_repacked.val = pdu_wire.val
    /\ (pdu_rx # NotRun /\ pdu_in = SubSeq(pdu_wire.val, 1, Len(pdu_wire.val) - 1)) =>
           pdu_rx.err = "ValueError"
    /\ (/\ pdu_wire # NotRun
        /\ pdu.val = FinishedPdu(DATA_COMPLETE, FILE_STATUS_UNREPORTED, NO_ERROR, << >>, None)) =>
           pdu_wire.val = << 32, 0, 2, 17, 0, 0, 0, 5, 3 >>

\* the PDU with two file store responses and a fault location was packed,
\* unpacked and packed again
C20_Witness ==
    /\ pdu_repacked.err = "none" /\ pdu_in = pdu_wire.val
    /\ Len(pdu_rx.val.file_store_responses) = 2
    /\ pdu_rx.val.fault_location = fault_location_tlv


(***************************************************************************)
(* C21: FinishedPdu.unpack raises ValueError for every PDU whose condition *)
(* code is NO_ERROR and that carries a fault location EntityIdTlv, also    *)
(* when pdu_data_length counts the TLV; and a FinishedPdu that unpack      *)
(* returns has a fault location only if its condition code is not          *)
(* NO_ERROR.                                                               *)
(***************************************************************************)
C21_FaultLocationNeedsError ==
    /\ (/\ pdu_rx # NotRun
        /\ pdu.val.condition_code = NO_ERROR
        /\ pdu_in = WithFaultSource(pdu_wire.val))
       => pdu_rx.err = "ValueError"
    /\ (pdu_rx.err = "none" /\ pdu_rx.val.fault_location # None)
       => pdu_rx.val.condition_code # NO_ERROR

\* unpack refused a PDU with NO_ERROR, a file store response and a fault
\* location behind it, all of them counted by pdu_data_length
C21_Witness ==
    /\ pdu_rx.err = "ValueError"
    /\ pdu.val.condition_code = NO_ERROR
    /\ pdu.val.file_store_responses = << filestore_reponse_1 >>
    /\ pdu_in = WithFaultSource(pdu_wire.val)
    /\ Len(pdu_in) = PDU_HEADER_LEN + pdu_in[2] * 256 + pdu_in[3]
    /\ SubSeq(pdu_in, Len(pdu_in) - 2, Len(pdu_in)) = << ENTITY_ID, 1, 0 >>


(***************************************************************************)
(* C22: a CfdpTlv becomes a MessageToUserTlv only when its type code is    *)
(* MESSAGE_TO_USER.  MessageToUserTlv.from_tlv raises                      *)
(* TlvTypeMissmatchError for every CfdpTlv of another type and returns a   *)
(* TLV for one of type MESSAGE_TO_USER; TlvHolder(tlv).to_msg_to_user()    *)
(* of a CfdpTlv of type MESSAGE_TO_USER equals the MessageToUserTlv built  *)
(* from the same value, and raises for a CfdpTlv of another type.          *)
(***************************************************************************)
C22_TypedTlvNeedsItsType ==
    /\ (msg_tlv # NotRun /\ tlv.val.tlv_type # MESSAGE_TO_USER)
       => msg_tlv.err = "TlvTypeMissmatchError"
    /\ (msg_tlv # NotRun /\ tlv.val.tlv_type = MESSAGE_TO_USER)
       => /\ msg_tlv.err = "none"
          /\ Tlv_eq(msg_tlv.val, MessageToUserTlv(tlv.val.value).val)
    /\ (held # NotRun /\ Tlv_tlv_type(tlv.val) = MESSAGE_TO_USER)
       => /\ held.err = "none"
          /\ Tlv_eq(held.val, MessageToUserTlv(Tlv_value(tlv.val)).val)
    /\ (held # NotRun /\ Tlv_tlv_type(tlv.val) # MESSAGE_TO_USER)
       => held.err = "TlvTypeMissmatchError"

\* a CfdpTlv of type FILESTORE_REQUEST with value 00 was refused by from_tlv
\* and by the holder
C22_Witness ==
    /\ tlv = CfdpTlv(FILESTORE_REQUEST, << 0 >>)
    /\ msg_tlv.err = "TlvTypeMissmatchError"
    /\ held.err = "TlvTypeMissmatchError"


(***************************************************************************)
(* C23: for a packet that PusTelemetry.unpack returned, is_valid() is True *)
(* exactly when the CRC-16 over the first data_length + 7 bytes of the     *)
(* input is 0: True for the bytes pack() returned, False when the length   *)
(* field was changed so that the CRC does not close.                       *)
(***************************************************************************)
C23_ValidIffCrcCloses ==
    (UnpackedBuffer /\ rx.err = "none") =>
        (is_valid(rx.val)
            <=> crc_func(Slice(raw_in.bytes, 0, Expected(raw_in.bytes))) = 0)

\* unpack returned a packet that is not valid for the packed bytes with the
\* length field set to 0, whose first 7 bytes have a CRC other than 0
C23_Witness ==
    /\ rx.err = "none" /\ ~is_valid(rx.val)
    /\ wire.err = "none"
    /\ raw_in.bytes = SetLenField(wire.val, 0)
    /\ crc_func(SubSeq(raw_in.bytes, 1, 7)) # 0


(***************************************************************************)
(* C24: every Service17Tm, constructed from fields or returned by          *)
(* Service17Tm.unpack, has service 17 and a subservice in {TC_PING = 1,    *)
(* TM_REPLY = 2}: a construction with another subservice and an unpack of  *)
(* a packet of another service or subservice return no Service17Tm.        *)
(***************************************************************************)
C24_Service17Only ==
    /\ s17.err = "none" =>
           /\ Service17Tm_service(s17.val) = S17_TEST
           /\ Service17Tm_subservice(s17.val) \in {TC_PING, TM_REPLY}
    /\ s17_rx.err = "none" =>
           /\ Service17Tm_service(s17_rx.val) = S17_TEST
           /\ Service17Tm_subservice(s17_rx.val) \in {TC_PING, TM_REPLY}


(***************************************************************************)
(* C25: PusTelemetry objects share no buffer.  For every object that was   *)
(* constructed without a source_data argument, get_tm_data() holds the     *)
(* bytes that were appended to the buffer of this object and no others,    *)
(* and while nothing was appended to its own buffer, pack() returns        *)
(* data_length + 7 bytes whatever was appended to the buffer of the other  *)
(* object.                                                                 *)
(***************************************************************************)
C25_NoSharedBuffer ==
    \A o \in Objects :
        (objs[o].err = "none" /\ objs[o].val.buf = "default") =>
            /\ get_tm_data(o) = appended[o]
            /\ (packs[o].err = "none" /\ appended[o] = << >>) =>
                   Len(packs[o].val) = objs[o].val.tm.space_packet_header.data_length + 7


(***************************************************************************)
(* C26: GLOBAL_CONFIG is resolved when the object is constructed.  A       *)
(* PusTelemetry constructed with pus_version = GLOBAL_CONFIG has the PUS   *)
(* version that was the default at its construction, in its secondary      *)
(* header, in its data_length and in the bytes pack() returns, whatever    *)
(* the default is now; a change of the default PUS TM version changes no   *)
(* object and no pack() output; and a step that returns the bytes of a     *)
(* pack() or the packet of an unpack() leaves the defaults as they are.    *)
(***************************************************************************)
ResolvedAtConstruction ==
    \A o \in Objects :
        (objs[o].err = "none" /\ objs[o].val.pus_version = GLOBAL_CONFIG) =>
            LET pus_tm == objs[o].val.tm
                version == objs[o].val.default_version
            IN  /\ pus_tm.secondary_packet_header.pus_version = version
                /\ pus_tm.space_packet_header.data_length
                       = SecHdrLen(version) + Len(pus_tm.source_data) + 2 - 1
                /\ packs[o].err = "none" =>
                       /\ packs[o].val[7] \div 16 = version
                       /\ packs[o].val[5] * 256 + packs[o].val[6]
                              = pus_tm.space_packet_header.data_length

DefaultsAndObjectsApart ==
    /\ set_pus_tm_version =>
           \A o \in Objects :
               /\ objs'[o] = objs[o]
               /\ objs[o].err = "none" =>
                      PusTelemetry_pack(SelfOf(objs'[o], default_source_data', bufs'[o]))
                          = PusTelemetry_pack(Self(o))
    /\ (packs' # packs \/ unpacked' # unpacked) => conf' = conf

C26_GlobalConfigResolvedAtConstruction ==
    []ResolvedAtConstruction /\ [][DefaultsAndObjectsApart]_vars

\* an object constructed with GLOBAL_CONFIG while the default was PUS C was
\* packed as PUS C, and its bytes were unpacked with GLOBAL_CONFIG after the
\* default became PUS A: they were read as PUS A, with 3 more bytes of source
\* data
C26_Witness ==
    /\ objs["first"].err = "none"
    /\ objs["first"].val.pus_version = GLOBAL_CONFIG
    /\ objs["first"].val.default_version = PUS_C
    /\ conf.pus_tm_version = PUS_A
    /\ packs["first"].err = "none" /\ packs["first"].val[7] \div 16 = PUS_C
    /\ objs["second"] = NotRun
    /\ unpacked.err = "none"
    /\ unpacked.val.secondary_packet_header.pus_version = PUS_A
    /\ Len(unpacked.val.source_data) = Len(get_tm_data("first")) + 3

====
